---- MODULE Spec2Model ----
(***************************************************************************)
(* Model of the claim validators and audit handlers of the RefundHunter    *)
(* backend (src/server.js, src/utils, src/unnamed).                        *)
(*                                                                         *)
(* JavaScript values are records [t, s, k, n]: t is the typeof tag, s the  *)
(* text of a string as a sequence of one-character strings, k the kind of  *)
(* a number ("fin", "nan", "inf", "ninf") and n its magnitude in           *)
(* thousandths (12.345 is n = 12345), or 1/0 for a boolean.                *)
(***************************************************************************)
EXTENDS Integers, Sequences, FiniteSets

\* ------------------------------------------------------------------------
\* JavaScript values
\* ------------------------------------------------------------------------
Undefined == [t |-> "undefined", s |-> <<>>, k |-> "", n |-> 0]
Null == [t |-> "null", s |-> <<>>, k |-> "", n |-> 0]
Str(cs) == [t |-> "string", s |-> cs, k |-> "", n |-> 0]
Num(m) == [t |-> "number", s |-> <<>>, k |-> "fin", n |-> m]
NaN == [t |-> "number", s |-> <<>>, k |-> "nan", n |-> 0]
PosInf == [t |-> "number", s |-> <<>>, k |-> "inf", n |-> 0]
NegInf == [t |-> "number", s |-> <<>>, k |-> "ninf", n |-> 0]
Bool(b) == [t |-> "boolean", s |-> <<>>, k |-> "", n |-> IF b THEN 1 ELSE 0]
ObjVal == [t |-> "object", s |-> <<>>, k |-> "", n |-> 0]

\* !v
Falsy(v) ==
    \/ v.t \in {"undefined", "null"}
    \/ v.t = "string" /\ v.s = <<>>
    \/ v.t = "number" /\ (v.k = "nan" \/ (v.k = "fin" /\ v.n = 0))
    \/ v.t = "boolean" /\ v.n = 0

IsNaN(v) == v.k = "nan"
\* v > 0 and v <= 0 on numbers (both false on NaN)
GtZero(v) == v.k = "inf" \/ (v.k = "fin" /\ v.n > 0)
LeZero(v) == v.k = "ninf" \/ (v.k = "fin" /\ v.n <= 0)
LtZero(v) == v.k = "ninf" \/ (v.k = "fin" /\ v.n < 0)

\* ------------------------------------------------------------------------
\* Strings
\* ------------------------------------------------------------------------
IsWs(c) == c \in {" ", "\t", "\n", "\r"}
IsDigit(c) == c \in {"0", "1", "2", "3", "4", "5", "6", "7", "8", "9"}
DigitVal(c) ==
    CASE c = "0" -> 0 [] c = "1" -> 1 [] c = "2" -> 2 [] c = "3" -> 3
      [] c = "4" -> 4 [] c = "5" -> 5 [] c = "6" -> 6 [] c = "7" -> 7
      [] c = "8" -> 8 [] c = "9" -> 9
DigitChar(d) == <<"0", "1", "2", "3", "4", "5", "6", "7", "8", "9">>[d + 1]

RECURSIVE TrimStart(_)
TrimStart(cs) ==
    IF cs # <<>> /\ IsWs(Head(cs)) THEN TrimStart(Tail(cs)) ELSE cs

RECURSIVE TrimEnd(_)
TrimEnd(cs) ==
    IF cs # <<>> /\ IsWs(cs[Len(cs)])
    THEN TrimEnd(SubSeq(cs, 1, Len(cs) - 1)) ELSE cs

\* String.prototype.trim
Trim(cs) == TrimEnd(TrimStart(cs))

\* number of leading decimal digits of cs from position i
RECURSIVE DigitRun(_, _)
DigitRun(cs, i) ==
    IF i <= Len(cs) /\ IsDigit(cs[i]) THEN 1 + DigitRun(cs, i + 1) ELSE 0

\* value of the len digits of cs from position i
RECURSIVE DigitsVal(_, _, _)
DigitsVal(cs, i, len) ==
    IF len = 0 THEN 0
    ELSE 10 * DigitsVal(cs, i, len - 1) + DigitVal(cs[i + len - 1])

HasPrefixAt(cs, i, p) ==
    /\ i + Len(p) - 1 <= Len(cs)
    /\ \A j \in 1..Len(p) : cs[i + j - 1] = p[j]

InfinityText == <<"I", "n", "f", "i", "n", "i", "t", "y">>

\* the thousandths of the fraction digits of cs from position i (flen of them);
\* digits past the third are below the model's resolution
FracVal(cs, i, flen) ==
    CASE flen = 0 -> 0
      [] flen = 1 -> 100 * DigitsVal(cs, i, 1)
      [] flen = 2 -> 10 * DigitsVal(cs, i, 2)
      [] OTHER -> DigitsVal(cs, i, 3)

\* Scan a StrDecimalLiteral prefix of cs (already left-trimmed):
\* [v |-> number, len |-> characters consumed]; v is NaN when there is none.
ScanDecimal(cs) ==
    LET sgn == IF cs # <<>> /\ cs[1] \in {"+", "-"} THEN 1 ELSE 0
        neg == sgn = 1 /\ cs[1] = "-"
        i0 == sgn + 1
        ilen == DigitRun(cs, i0)
        dot == i0 + ilen <= Len(cs) /\ cs[i0 + ilen] = "."
        flen == IF dot THEN DigitRun(cs, i0 + ilen + 1) ELSE 0
        mag == 1000 * DigitsVal(cs, i0, ilen) + FracVal(cs, i0 + ilen + 1, flen)
    IN  IF HasPrefixAt(cs, i0, InfinityText)
        THEN [v |-> IF neg THEN NegInf ELSE PosInf, len |-> sgn + 8]
        ELSE IF ilen = 0 /\ flen = 0
        THEN [v |-> NaN, len |-> 0]
        ELSE [v |-> Num(IF neg THEN 0 - mag ELSE mag),
              len |-> sgn + ilen + (IF dot THEN 1 + flen ELSE 0)]

\* Number.prototype.toString / String(number)
RECURSIVE NatText(_)
NatText(m) ==
    IF m < 10 THEN <<DigitChar(m)>>
    ELSE NatText(m \div 10) \o <<DigitChar(m % 10)>>

FracText(f) ==
    IF f = 0 THEN <<>>
    ELSE IF f % 100 = 0 THEN <<".", DigitChar(f \div 100)>>
    ELSE IF f % 10 = 0
    THEN <<".", DigitChar(f \div 100), DigitChar((f \div 10) % 10)>>
    ELSE <<".", DigitChar(f \div 100), DigitChar((f \div 10) % 10),
           DigitChar(f % 10)>>

NumberToString(v) ==
    CASE v.k = "nan" -> <<"N", "a", "N">>
      [] v.k = "inf" -> InfinityText
      [] v.k = "ninf" -> <<"-">> \o InfinityText
      [] OTHER ->
            LET a == IF v.n < 0 THEN 0 - v.n ELSE v.n
            IN  (IF v.n < 0 THEN <<"-">> ELSE <<>>)
                \o NatText(a \div 1000) \o FracText(a % 1000)

\* String(v) / v.toString() for the primitive and plain-object values
StringOf(v) ==
    CASE v.t = "string" -> v.s
      [] v.t = "number" -> NumberToString(v)
      [] v.t = "boolean" ->
            IF v.n = 1 THEN <<"t", "r", "u", "e">>
            ELSE <<"f", "a", "l", "s", "e">>
      [] v.t = "undefined" ->
            <<"u", "n", "d", "e", "f", "i", "n", "e", "d">>
      [] v.t = "null" -> <<"n", "u", "l", "l">>
      [] OTHER -> <<"[", "o", "b", "j", "e", "c", "t", " ",
                    "O", "b", "j", "e", "c", "t", "]">>

\* parseFloat(v): ToString, skip leading white space, longest decimal prefix
ParseFloat(v) == ScanDecimal(TrimStart(StringOf(v))).v

\* parseInt(v, 10): ToString, skip leading white space, sign and digit prefix
ParseInt(v) ==
    LET cs == TrimStart(StringOf(v))
        sgn == IF cs # <<>> /\ cs[1] \in {"+", "-"} THEN 1 ELSE 0
        ilen == DigitRun(cs, sgn + 1)
        mag == 1000 * DigitsVal(cs, sgn + 1, ilen)
    IN  IF ilen = 0 THEN NaN
        ELSE Num(IF sgn = 1 /\ cs[1] = "-" THEN 0 - mag ELSE mag)

\* Number(v): ToNumber
ToNumber(v) ==
    CASE v.t = "number" -> v
      [] v.t = "undefined" -> NaN
      [] v.t = "null" -> Num(0)
      [] v.t = "boolean" -> Num(1000 * v.n)
      [] v.t = "string" ->
            LET cs == Trim(v.s)
                sc == ScanDecimal(cs)
            IN  IF cs = <<>> THEN Num(0)
                ELSE IF sc.len = Len(cs) THEN sc.v ELSE NaN
      [] OTHER -> NaN

\* The thousandths whose nearest double lies below the decimal value, so that
\* toFixed(2) rounds the tie down: 1.005 is 1.00499999999999989...
TieBelow == {1005, 2675}

\* Number.prototype.toFixed(2) on a non-negative finite number, as text
ToFixed2Text(m) ==
    LET q == m \div 10
        r == m % 10
        c == IF r > 5 \/ (r = 5 /\ m \notin TieBelow) THEN q + 1 ELSE q
    IN  NatText(c \div 100) \o <<".", DigitChar((c \div 10) % 10),
                                  DigitChar(c % 10)>>

ToFixed2(v) ==
    IF v.k = "fin" THEN ToFixed2Text(v.n) ELSE NumberToString(v)

\* ------------------------------------------------------------------------
\* Candidate records and arrays
\* ------------------------------------------------------------------------
\* typeof v
TypeOf(v) == IF v.t = "null" THEN "object" ELSE v.t

\* The fields a candidate or ledger row may carry; Undefined is an absent
\* property.  unitCost, transactionType, referenceId are the properties
\* "unit-cost", "transaction-type", "reference-id".
NoFields ==
    [sku |-> Undefined, claimReason |-> Undefined, reason |-> Undefined,
     quantity |-> Undefined, estimatedValue |-> Undefined,
     amazonTransactionId |-> Undefined, unitCost |-> Undefined,
     transactionType |-> Undefined, disposition |-> Undefined,
     referenceId |-> Undefined]

\* An array element: p is the element as a value (ObjVal for a record, else
\* the primitive), f its properties (a primitive has none of them).
Obj(f) == [p |-> ObjVal, f |-> f]
Prim(v) == [p |-> v, f |-> NoFields]

\* the slip of Array.prototype.unshift for push
PushFront(acc, x) == <<x>> \o acc

\* Array.prototype.push
Push(acc, x) == Append(acc, x)

\* a call's outcome: the returned array, or a thrown TypeError
Returned(out) == [threw |-> FALSE, out |-> out]
Thrown == [threw |-> TRUE, out |-> <<>>]

\* ------------------------------------------------------------------------
\* validateClaims, inline in the server (src/unnamed/part_004:389)
\* ------------------------------------------------------------------------
\* requiredFields.some(field => !claim[field])
MissingField(f) ==
    \/ Falsy(f.sku)
    \/ Falsy(f.claimReason)
    \/ Falsy(f.quantity)
    \/ Falsy(f.estimatedValue)

\* Number(x.toFixed(2)) / parseFloat(x.toFixed(2))
RoundedValue(est) == ParseFloat(Str(ToFixed2(est)))

\* claim.amazonTransactionId ? String(claim.amazonTransactionId).trim() : null
SanitizedTransactionId(v) ==
    IF Falsy(v) THEN Null ELSE Str(Trim(StringOf(v)))

sanitizedClaim(f) ==
    Obj([NoFields EXCEPT
            !.sku = Str(Trim(StringOf(f.sku))),
            !.claimReason = Str(Trim(StringOf(f.claimReason))),
            !.quantity = ParseInt(f.quantity),
            !.estimatedValue = RoundedValue(ParseFloat(f.estimatedValue)),
            !.amazonTransactionId =
                SanitizedTransactionId(f.amazonTransactionId)])

\* the element passes every check of the loop body
KeptInline(e) ==
    /\ TypeOf(e.p) = "object" /\ e.p # Null
    /\ ~MissingField(e.f)
    /\ ~(IsNaN(ParseInt(e.f.quantity)) \/ LeZero(ParseInt(e.f.quantity)))
    /\ ~(IsNaN(ParseFloat(e.f.estimatedValue))
            \/ LeZero(ParseFloat(e.f.estimatedValue)))

RECURSIVE InlineLoop(_, _, _)
InlineLoop(items, i, validClaims) ==
    IF i > Len(items) THEN validClaims
    ELSE InlineLoop(items, i + 1,
            IF KeptInline(items[i])
            THEN Push(validClaims, sanitizedClaim(items[i].f))
            ELSE validClaims)

validateClaimsInline(claims) ==
    IF ~claims.arr THEN Returned(<<>>)
    ELSE Returned(InlineLoop(claims.items, 1, <<>>))

\* ------------------------------------------------------------------------
\* validateClaims, exported variant (src/unnamed/part_000:1)
\* ------------------------------------------------------------------------
\* (v || "").toString().trim()
TextOrEmpty(v) == IF Falsy(v) THEN <<>> ELSE Trim(StringOf(v))

cleanClaim(f) ==
    Obj([NoFields EXCEPT
            !.sku = Str(TextOrEmpty(f.sku)),
            !.reason = Str(TextOrEmpty(f.reason)),
            !.quantity = ToNumber(f.quantity),
            !.estimatedValue = RoundedValue(ToNumber(f.estimatedValue))])

\* !n || n <= 0 || isNaN(n)
NotPositive(n) == Falsy(n) \/ LeZero(n) \/ IsNaN(n)

KeptClean(e) ==
    /\ ~Falsy(e.p)
    /\ TextOrEmpty(e.f.sku) # <<>> /\ TextOrEmpty(e.f.reason) # <<>>
    /\ ~NotPositive(ToNumber(e.f.quantity))
    /\ ~NotPositive(ToNumber(e.f.estimatedValue))

RECURSIVE CleanLoop(_, _, _)
CleanLoop(items, i, cleanClaims) ==
    IF i > Len(items) THEN cleanClaims
    ELSE CleanLoop(items, i + 1,
            IF KeptClean(items[i])
            THEN Push(cleanClaims, cleanClaim(items[i].f))
            ELSE cleanClaims)

validateClaimsClean(rawClaims) ==
    IF ~rawClaims.arr THEN Returned(<<>>)
    ELSE Returned(CleanLoop(rawClaims.items, 1, <<>>))

\* ------------------------------------------------------------------------
\* validateClaims over ledger rows (src/utils/validateClaims.js:1)
\* ------------------------------------------------------------------------
\* v?.trim(): undefined for a nullish v, a TypeError for any other non-string
TrimThrows(v) == v.t \notin {"undefined", "null", "string"}
OptionalTrim(v) == IF v.t = "string" THEN Str(Trim(v.s)) ELSE Undefined

Abs(n) == IF n < 0 THEN 0 - n ELSE n

\* Math.abs
MathAbs(v) ==
    CASE v.k = "fin" -> Num(Abs(v.n))
      [] v.k = "nan" -> NaN
      [] OTHER -> PosInf

\* a * b on numbers; finite products are kept to the thousandth
Times(a, b) ==
    CASE a.k = "nan" \/ b.k = "nan" -> NaN
      [] a.k = "fin" /\ b.k = "fin" -> Num((a.n * b.n) \div 1000)
      [] (a.k = "fin" /\ a.n = 0) \/ (b.k = "fin" /\ b.n = 0) -> NaN
      [] OTHER -> IF LtZero(a) = LtZero(b) THEN PosInf ELSE NegInf

tSELLABLE == <<"S", "E", "L", "L", "A", "B", "L", "E">>
tAdjustments == <<"A", "d", "j", "u", "s", "t", "m", "e", "n", "t", "s">>
tLostInventory ==
    <<"L", "o", "s", "t", " ", "I", "n", "v", "e", "n", "t", "o", "r", "y">>
tDamagedInventory ==
    <<"D", "a", "m", "a", "g", "e", "d", " ",
      "I", "n", "v", "e", "n", "t", "o", "r", "y">>
tUnexplained ==
    <<"U", "n", "e", "x", "p", "l", "a", "i", "n", "e", "d", " ",
      "A", "d", "j", "u", "s", "t", "m", "e", "n", "t", " ",
      "L", "o", "s", "s">>
tNA == <<"N", "/", "A">>

\* the if / else-if chain; Null when no branch assigns
detectedReason(qty, disposition, eventType) ==
    IF LtZero(qty) /\ disposition = Str(tSELLABLE) THEN Str(tLostInventory)
    ELSE IF LtZero(qty) /\ disposition # Str(tSELLABLE)
    THEN Str(tDamagedInventory)
    ELSE IF eventType = Str(tAdjustments) /\ LtZero(qty)
    THEN Str(tUnexplained)
    ELSE Null

\* row["reference-id"] || "N/A"
refId(f) == IF Falsy(f.referenceId) THEN Str(tNA) ELSE f.referenceId

RowThrows(e) ==
    /\ ~Falsy(e.p)
    /\ \/ TrimThrows(e.f.sku)
       \/ TrimThrows(e.f.transactionType)
       \/ TrimThrows(e.f.disposition)
       \/ TrimThrows(e.f.reason)

KeptRow(e) ==
    LET qty == ParseFloat(e.f.quantity)
        unitCost == ParseFloat(e.f.unitCost)
    IN  /\ ~Falsy(e.p)
        /\ ~Falsy(OptionalTrim(e.f.sku))
        /\ ~IsNaN(qty) /\ ~IsNaN(unitCost)
        /\ ~GtZero(qty)
        /\ detectedReason(qty, OptionalTrim(e.f.disposition),
                          OptionalTrim(e.f.transactionType)) # Null

rowClaim(f) ==
    LET qty == ParseFloat(f.quantity)
        unitCost == ParseFloat(f.unitCost)
    IN  Obj([NoFields EXCEPT
            !.sku = OptionalTrim(f.sku),
            !.claimReason =
                detectedReason(qty, OptionalTrim(f.disposition),
                               OptionalTrim(f.transactionType)),
            !.quantity = MathAbs(qty),
            !.estimatedValue = MathAbs(Times(qty, unitCost)),
            !.amazonTransactionId = refId(f)])

RECURSIVE RowsLoop(_, _, _)
RowsLoop(rows, i, claims) ==
    IF i > Len(rows) THEN Returned(claims)
    ELSE IF RowThrows(rows[i]) THEN Thrown
    ELSE RowsLoop(rows, i + 1,
            IF KeptRow(rows[i]) THEN Push(claims, rowClaim(rows[i].f))
            ELSE claims)

validateClaimsRows(rows) ==
    IF ~rows.arr THEN Returned(<<>>) ELSE RowsLoop(rows.items, 1, <<>>)

\* ------------------------------------------------------------------------
\* validateClaims, default export (src/utils/utils/validateClaims.js:1)
\* ------------------------------------------------------------------------
\* c.sku on null or undefined is a TypeError
PropertyReadThrows(e) == e.p.t \in {"undefined", "null"}

GeZero(v) == v.k = "inf" \/ (v.k = "fin" /\ v.n >= 0)

KeptFilter(e) ==
    /\ TypeOf(e.f.sku) = "string"
    /\ TypeOf(e.f.reason) = "string"
    /\ TypeOf(e.f.quantity) = "number"
    /\ TypeOf(e.f.estimatedValue) = "number"
    /\ GtZero(e.f.quantity)
    /\ GeZero(e.f.estimatedValue)

RECURSIVE FilterLoop(_, _, _)
FilterLoop(claims, i, kept) ==
    IF i > Len(claims) THEN Returned(kept)
    ELSE IF PropertyReadThrows(claims[i]) THEN Thrown
    ELSE FilterLoop(claims, i + 1,
            IF KeptFilter(claims[i]) THEN Push(kept, claims[i]) ELSE kept)

validateClaimsFilter(claims) ==
    IF ~claims.arr THEN Returned(<<>>) ELSE FilterLoop(claims.items, 1, <<>>)

\* ------------------------------------------------------------------------
\* Inputs: candidate lists drawn from a bounded universe
\* ------------------------------------------------------------------------
tA1 == <<"A", "-", "1">>
tB9 == <<"B", "-", "9">>
tLost == <<"L", "o", "s", "t">>
tDamaged == <<"D", "a", "m", "a", "g", "e", "d">>
tT1 == <<"T", "1">>
tAbc == <<"a", "b", "c">>
tBlank == <<" ">>
tPaddedSku == <<" ", "A", "-", "1", " ">>
tThree == <<"3">>
tZero == <<"0">>
tMinusThree == <<"-", "3">>
t12345 == <<"1", "2", ".", "3", "4", "5">>
t2p5 == <<"2", ".", "5">>
t12p5usd == <<"1", "2", ".", "5", "u", "s", "d">>

\* a well-formed candidate carrying both spellings of the reason
Base ==
    [NoFields EXCEPT
        !.sku = Str(tA1), !.claimReason = Str(tDamaged), !.reason = Str(tLost),
        !.quantity = Num(2000), !.estimatedValue = Num(10000),
        !.amazonTransactionId = Str(tT1)]

\* {sku:"B-9", claimReason:"Lost", quantity:"3", estimatedValue:"12.345"}
ScenarioB9 ==
    [NoFields EXCEPT
        !.sku = Str(tB9), !.claimReason = Str(tLost),
        !.quantity = Str(tThree), !.estimatedValue = Str(t12345)]

\* a ledger row: a negative adjustment of sellable stock
BaseRow ==
    [NoFields EXCEPT
        !.sku = Str(tA1), !.quantity = Str(tMinusThree),
        !.unitCost = Str(t2p5), !.disposition = Str(tSELLABLE),
        !.transactionType = Str(tAdjustments), !.referenceId = Str(tT1)]

SkuValues == {Undefined, Str(<<>>), Str(tBlank), Str(tPaddedSku), Num(5000)}
ReasonValues == {Undefined, Str(<<>>), Str(tBlank)}
QuantityValues ==
    {Undefined, Num(0), Num(0 - 2000), Num(2500), Num(500), PosInf,
     Str(tThree), Str(tZero), Str(tAbc), Str(InfinityText)}
ValueValues ==
    {Undefined, Num(0), Num(0 - 1000), Num(4), Num(1005), Num(12345),
     Str(InfinityText), Str(tAbc), Str(t12p5usd)}
TransactionIdValues == {Undefined, Str(<<>>), Str(tBlank)}

CandidateFields ==
    {Base, ScenarioB9, BaseRow}
    \cup {[Base EXCEPT !.sku = v] : v \in SkuValues}
    \cup {[Base EXCEPT !.claimReason = v] : v \in ReasonValues}
    \cup {[Base EXCEPT !.reason = v] : v \in ReasonValues}
    \cup {[Base EXCEPT !.claimReason = Undefined, !.reason = Undefined]}
    \cup {[Base EXCEPT !.quantity = v] : v \in QuantityValues}
    \cup {[Base EXCEPT !.estimatedValue = v] : v \in ValueValues}
    \cup {[Base EXCEPT !.amazonTransactionId = v] : v \in TransactionIdValues}
    \cup {[BaseRow EXCEPT !.disposition = v] : v \in {Undefined, Str(tDamaged)}}
    \cup {[BaseRow EXCEPT !.quantity = v] : v \in {Str(tThree), Str(tZero)}}
    \cup {[BaseRow EXCEPT !.unitCost = Undefined]}

Elements ==
    {Obj(f) : f \in CandidateFields} \cup {Prim(Null), Prim(Num(5000)), Prim(Str(tAbc))}

\* longest candidate list
MaxLen == 2

RECURSIVE SeqsUpTo(_, _)
SeqsUpTo(S, n) ==
    IF n = 0 THEN {<<>>}
    ELSE LET shorter == SeqsUpTo(S, n - 1)
         IN  shorter \cup {Append(q, x) : q \in shorter, x \in S}

ArrayOf(items) == [arr |-> TRUE, items |-> items]
\* any argument that is not an array (an object, a string, null, undefined)
NotAnArray == [arr |-> FALSE, items |-> <<>>]

Arguments == {ArrayOf(q) : q \in SeqsUpTo(Elements, MaxLen)} \cup {NotAnArray}

\* ------------------------------------------------------------------------
\* State
\* ------------------------------------------------------------------------
\* impl, input, first, second, vpc: a caller applying one validateClaims to a
\* list (first) and then to its own output (second).
\* handler, validator, request, apc: one audit request, the validateClaims its
\* handler is bound to, and the handler's position.
\* status, resClaims, resTotal, resMessages: the HTTP response (status 0: none
\* sent yet); passedValidator: the handler called validateClaims on the claims
\* it responds with.
\* reply: what the classifier call of the request came to (kind "none" before
\* it has).
\* pre, csv, perm, binding, preRows, permRows, ppc: one preprocessCSV applied
\* to a CSV input (binding: the column its header resolved for each field)
\* and to the same input with its columns permuted.
\* splitter, cells, line, split, spc: one line splitter applied to the quoted
\* encoding of a list of cells.
VARIABLES impl, input, first, second, vpc,
          handler, validator, request, apc, reply,
          status, resClaims, resTotal, resMessages, passedValidator,
          pre, csv, perm, binding, preRows, permRows, ppc,
          splitter, cells, line, split, spc,
          truncatedRows,
          firestore, limits, history, accounts, onceOnly, requests, hook

validateVars == <<impl, input, first, second, vpc>>
auditVars ==
    <<handler, validator, request, apc, reply,
      status, resClaims, resTotal, resMessages, passedValidator,
      truncatedRows>>
preprocessVars == <<pre, csv, perm, binding, preRows, permRows, ppc>>
splitVars == <<splitter, cells, line, split, spc>>
billingVars ==
    <<firestore, limits, history, accounts, onceOnly, requests, hook>>
vars == <<validateVars, auditVars, preprocessVars, splitVars, billingVars>>

\* a request: which of csvContent, userId and the uploaded file it carries,
\* whether the CSV is over the size limit, whether it parses (or its stream
\* reads) without error, and the records and resolved columns it parses to
NoRequest ==
    [csvContent |-> FALSE, userId |-> FALSE, file |-> FALSE,
     tooLarge |-> FALSE, readable |-> TRUE, cols |-> {}, records |-> <<>>]

\* the classifier has not been called
NoReply ==
    [kind |-> "none",
     parsed |-> [kind |-> "invalid", hasClaims |-> FALSE, items |-> <<>>,
                 messages |-> <<>>]]

\* no audit request in progress
AuditIdle ==
    /\ handler = "none" /\ validator = "none" /\ request = NoRequest
    /\ reply = NoReply
    /\ apc = "idle" /\ status = 0 /\ resClaims = <<>>
    /\ resTotal = Undefined /\ resMessages = <<>>
    /\ passedValidator = FALSE
    /\ truncatedRows = Undefined

\* no billing request in progress, no document stored
BillingIdle ==
    /\ firestore = FALSE /\ limits = <<>> /\ history = <<>>
    /\ accounts = <<>> /\ onceOnly = <<>> /\ requests = <<>>
    /\ hook = "none"

\* no direct call of validateClaims in progress
ValidateIdle ==
    /\ impl = "none" /\ input = NotAnArray
    /\ first = Returned(<<>>) /\ second = Returned(<<>>) /\ vpc = "idle"

\* no column resolved for any field (columns count from 0)
NoBinding == [sku |-> 0 - 1, quantity |-> 0 - 1, reason |-> 0 - 1, ref |-> 0 - 1]

\* no direct call of preprocessCSV in progress
PreprocessIdle ==
    /\ pre = "none" /\ csv = [kind |-> "undefined", lines |-> <<>>]
    /\ perm = <<>> /\ binding = NoBinding
    /\ preRows = Returned(<<>>) /\ permRows = Returned(<<>>)
    /\ ppc = "idle"

\* no direct call of a line splitter in progress
SplitIdle ==
    /\ splitter = "none" /\ cells = <<>> /\ line = <<>> /\ split = <<>>
    /\ spc = "idle"

\* ------------------------------------------------------------------------
\* A caller applying one validateClaims to a list, then to its own output
\* ------------------------------------------------------------------------
Impls == {"inline", "clean", "rows", "filter"}

Run(which, claims) ==
    CASE which = "inline" -> validateClaimsInline(claims)
      [] which = "clean" -> validateClaimsClean(claims)
      [] which = "rows" -> validateClaimsRows(claims)
      [] OTHER -> validateClaimsFilter(claims)

InitValidate ==
    /\ impl \in Impls
    /\ input \in Arguments
    /\ first = Returned(<<>>)
    /\ second = Returned(<<>>)
    /\ vpc = "call"
    /\ AuditIdle /\ PreprocessIdle /\ SplitIdle /\ BillingIdle

Validate ==
    /\ vpc = "call"
    /\ first' = Run(impl, input)
    /\ vpc' = IF first'.threw THEN "threw" ELSE "returned"
    /\ UNCHANGED <<impl, input, second, auditVars, preprocessVars, splitVars,
                   billingVars>>

Revalidate ==
    /\ vpc = "returned"
    /\ second' = Run(impl, ArrayOf(first.out))
    /\ vpc' = IF second'.threw THEN "rethrew" ELSE "done"
    /\ UNCHANGED <<impl, input, first, auditVars, preprocessVars, splitVars,
                   billingVars>>

NextValidate == Validate \/ Revalidate

SpecValidate == InitValidate /\ [][NextValidate]_vars

\* ------------------------------------------------------------------------
\* Claims about validateClaims (SpecValidate)
\* ------------------------------------------------------------------------
Called == vpc \notin {"idle", "call"}
Candidates == input.items
Emitted == first.out

IsFiniteNumber(v) == v.t = "number" /\ v.k = "fin"
IsText(v) == v.t = "string"

\* the number a variant reads from a field: parseFloat / parseInt inline,
\* Number() in the exported variant
CoercedValue(v) == IF impl = "inline" THEN ParseFloat(v) ELSE ToNumber(v)
CoercedQuantity(v) == IF impl = "inline" THEN ParseInt(v) ELSE ToNumber(v)

\* C1: every emitted claim has estimatedValue > 0, a multiple of 0.01 within
\* half a cent of some candidate's coerced estimatedValue; a lone candidate
\* whose estimatedValue coerces to a non-finite number or to one <= 0 is
\* dropped.
C1_ValuePositiveRounded ==
    (Called /\ impl \in {"inline", "clean"}) =>
        /\ \A i \in 1..Len(Emitted) :
            LET v == Emitted[i].f.estimatedValue
            IN  /\ IsFiniteNumber(v) /\ v.n > 0 /\ v.n % 10 = 0
                /\ \E j \in 1..Len(Candidates) :
                    LET c == CoercedValue(Candidates[j].f.estimatedValue)
                    IN  IsFiniteNumber(c) /\ Abs(c.n - v.n) <= 5
        /\ (/\ Len(Candidates) = 1
            /\ LET c == CoercedValue(Candidates[1].f.estimatedValue)
               IN  ~(IsFiniteNumber(c) /\ c.n > 0))
           => Emitted = <<>>

\* C2: validateClaims applied to its own output returns that output unchanged.
C2_Idempotent ==
    (vpc \in {"done", "rethrew"} /\ impl \in {"inline", "clean", "rows"}) =>
        second = first

\* C3: validateClaims never throws; a non-array argument yields the empty list.
C3_NeverThrows ==
    (impl \in {"filter", "rows"}) =>
        /\ vpc # "threw"
        /\ (Called /\ ~input.arr) => first = Returned(<<>>)

\* C4: no emitted claim has an empty sku, and a lone candidate whose sku is
\* missing or empty after trimming is dropped.
C4_NoEmptySku ==
    (Called /\ ~first.threw /\ impl \in {"inline", "filter"}) =>
        /\ \A i \in 1..Len(Emitted) :
            IsText(Emitted[i].f.sku) /\ Trim(Emitted[i].f.sku.s) # <<>>
        /\ (/\ Len(Candidates) = 1
            /\ LET v == Candidates[1].f.sku
               IN  v.t \in {"undefined", "null"}
                    \/ (IsText(v) /\ Trim(v.s) = <<>>))
           => Emitted = <<>>

\* the reason of a candidate: claimReason when present, otherwise reason
PreferredReason(f) ==
    IF f.claimReason.t # "undefined" THEN f.claimReason ELSE f.reason

\* C5: the reason is taken from claimReason when present and otherwise from
\* reason; a lone candidate carrying only reason is accepted, one with neither
\* or with an empty reason after trimming is dropped, and the emitted claim
\* carries the trimmed text as claimReason.
C5_ReasonAlias ==
    (Called /\ impl \in {"inline", "clean"} /\ Len(Candidates) = 1) =>
        LET f == Candidates[1].f
            r == PreferredReason(f)
            usable == IsText(r) /\ Trim(r.s) # <<>>
        IN  /\ ~usable => Emitted = <<>>
            /\ (usable /\ f = [Base EXCEPT !.claimReason = f.claimReason,
                                            !.reason = f.reason])
                 => /\ Len(Emitted) = 1
                    /\ Emitted[1].f.claimReason = Str(Trim(r.s))

\* C6: every emitted claim has an integer quantity > 0; a lone candidate whose
\* quantity coerces to zero, a negative or a non-finite number is dropped.
C6_QuantityPositiveInteger ==
    (Called /\ impl \in {"inline", "clean"}) =>
        /\ \A i \in 1..Len(Emitted) :
            LET q == Emitted[i].f.quantity
            IN  IsFiniteNumber(q) /\ q.n > 0 /\ q.n % 1000 = 0
        /\ (/\ Len(Candidates) = 1
            /\ LET c == CoercedQuantity(Candidates[1].f.quantity)
               IN  ~(IsFiniteNumber(c) /\ c.n > 0))
           => Emitted = <<>>

\* C7: every emitted claim has a string amazonTransactionId, "N/A" when the
\* candidate's is absent or empty and the candidate's own otherwise.
C7_TransactionIdDefault ==
    (Called /\ impl \in {"inline", "clean"} /\ Len(Candidates) = 1) =>
        \A i \in 1..Len(Emitted) :
            LET given == Candidates[1].f.amazonTransactionId
                got == Emitted[i].f.amazonTransactionId
            IN  /\ IsText(got)
                /\ Falsy(given) => got = Str(tNA)
                /\ (IsText(given) /\ given.s # <<>>)
                    => Trim(got.s) = Trim(given.s)

\* what a variant keeps, and the claim it builds from a kept candidate
Keeps(which, e) ==
    CASE which = "inline" -> KeptInline(e)
      [] which = "clean" -> KeptClean(e)
      [] which = "rows" -> KeptRow(e)
      [] OTHER -> KeptFilter(e)

Builds(which, e) ==
    CASE which = "inline" -> sanitizedClaim(e.f)
      [] which = "clean" -> cleanClaim(e.f)
      [] which = "rows" -> rowClaim(e.f)
      [] OTHER -> e

\* C8: the output is an order-preserving subsequence of the input: there is a
\* strictly increasing map from output positions to the positions of the kept
\* candidates, onto them, and each claim is the one built from its candidate.
C8_OrderedSubsequence ==
    (Called /\ ~first.threw /\ input.arr) =>
        LET kept == {j \in 1..Len(Candidates) : Keeps(impl, Candidates[j])}
        IN  \E g \in [1..Len(Emitted) -> 1..Len(Candidates)] :
                /\ \A i \in 1..Len(Emitted) :
                    /\ g[i] \in kept
                    /\ Emitted[i] = Builds(impl, Candidates[g[i]])
                    /\ \A h \in 1..Len(Emitted) : h < i => g[h] < g[i]
                /\ {g[i] : i \in 1..Len(Emitted)} = kept

\* two different claims emitted from a two-candidate list
C8_Witness ==
    /\ vpc = "returned" /\ impl = "inline"
    /\ Len(Emitted) = 2 /\ Emitted[1] # Emitted[2]

\* ------------------------------------------------------------------------
\* Aggregation: totalEstimatedValue
\* ------------------------------------------------------------------------
\* a + b on numbers
Plus(a, b) ==
    CASE a.k = "nan" \/ b.k = "nan" -> NaN
      [] a.k = "fin" /\ b.k = "fin" -> Num(a.n + b.n)
      [] a.k = "fin" -> b
      [] b.k = "fin" -> a
      [] a.k = b.k -> a
      [] OTHER -> NaN

\* x || 0
OrZero(v) == IF Falsy(v) THEN Num(0) ELSE v

\* claims.reduce((sum, c) => sum + (parseFloat(c.estimatedValue) || 0), 0);
\* reading c.estimatedValue of a null element throws
RECURSIVE ReduceTotal(_, _, _)
ReduceTotal(claims, i, sum) ==
    IF i > Len(claims) THEN [threw |-> FALSE, v |-> sum]
    ELSE IF PropertyReadThrows(claims[i]) THEN [threw |-> TRUE, v |-> NaN]
    ELSE ReduceTotal(claims, i + 1,
            Plus(sum, OrZero(ParseFloat(claims[i].f.estimatedValue))))

totalEstimatedValue(claims) == ReduceTotal(claims, 1, Num(0))

\* ------------------------------------------------------------------------
\* buildClaimsFromRecords (src/unnamed/part_002:101)
\* ------------------------------------------------------------------------
\* Cap on the claims built from one file
MAX_CLAIMS == 50

\* A parsed CSV record: the cells under the columns findFieldName resolved
\* for sku, quantity, value, reason and transaction id (Undefined where the
\* record has no such key).
NoCells ==
    [sku |-> Undefined, quantity |-> Undefined, value |-> Undefined,
     reason |-> Undefined, txn |-> Undefined]

tUnknownSku ==
    <<"U", "N", "K", "N", "O", "W", "N", "-", "S", "K", "U", "-">>
tNADash == <<"N", "/", "A", "-">>
tDiscrepancy ==
    <<"I", "n", "v", "e", "n", "t", "o", "r", "y", " ",
      "d", "i", "s", "c", "r", "e", "p", "a", "n", "c", "y">>

\* String(row[field] || "").trim(), "" when the field did not resolve
CellText(resolved, v) ==
    IF resolved /\ ~Falsy(v) THEN Trim(StringOf(v)) ELSE <<>>

\* String(v).replace(/[^0-9\.-]/g, "")
NumericChars(cs) == SelectSeq(cs, LAMBDA c : IsDigit(c) \/ c \in {".", "-"})

\* Number(rawQty) || 1
recordQuantity(cols, row) ==
    LET rawQty == IF "quantity" \in cols THEN row.quantity ELSE Num(1000)
        q == ToNumber(rawQty)
    IN  IF Falsy(q) THEN Num(1000) ELSE q

\* the value column when it parses to a finite number, else the fallback
recordValue(cols, row) ==
    LET quantity == recordQuantity(cols, row)
        parsedVal ==
            IF "value" \in cols /\ row.value.t \notin {"undefined", "null"}
            THEN ParseFloat(Str(NumericChars(StringOf(row.value))))
            ELSE NaN
        value == IF parsedVal.k = "fin" THEN MathAbs(parsedVal) ELSE Num(0)
    IN  IF Falsy(value) \/ LeZero(value)
        THEN (IF GtZero(quantity) THEN Times(quantity, Num(10000))
              ELSE Num(5000))
        ELSE value

recordClaim(cols, row, i) ==
    LET sku == CellText("sku" \in cols, row.sku)
        txn == CellText("txn" \in cols, row.txn)
        reasonRaw == CellText("reason" \in cols, row.reason)
    IN  Obj([NoFields EXCEPT
            !.sku = Str(IF sku # <<>> THEN sku
                        ELSE tUnknownSku \o NatText(i)),
            !.quantity = recordQuantity(cols, row),
            !.amazonTransactionId =
                Str(IF txn # <<>> THEN txn ELSE tNADash \o NatText(i)),
            !.estimatedValue = recordValue(cols, row),
            !.claimReason =
                Str(IF reasonRaw # <<>> THEN reasonRaw ELSE tDiscrepancy)])

\* the message drafted for a claim: its sku and reason, and the values the
\* template quotes
recordMessage(claim) ==
    [sku |-> claim.f.sku, reason |-> claim.f.claimReason,
     quantity |-> claim.f.quantity,
     value |-> ToFixed2(claim.f.estimatedValue),
     transactionId |-> claim.f.amazonTransactionId]

NoClaimsBuilt ==
    [claims |-> <<>>, totalEstimatedValue |-> Num(0), messages |-> <<>>]

\* the for loop with the cap tested one claim late
RECURSIVE BuildLoopOneMore(_, _, _, _)
BuildLoopOneMore(cols, records, i, acc) ==
    IF ~(i <= Len(records) /\ Len(acc.claims) <= MAX_CLAIMS) THEN acc
    ELSE LET claim == recordClaim(cols, records[i], i)
         IN  BuildLoopOneMore(cols, records, i + 1,
                [claims |-> Push(acc.claims, claim),
                 totalEstimatedValue |->
                    Plus(acc.totalEstimatedValue, claim.f.estimatedValue),
                 messages |-> Push(acc.messages, recordMessage(claim))])

\* the for loop: i is the 0-based index of the code plus one
RECURSIVE BuildLoop(_, _, _, _)
BuildLoop(cols, records, i, acc) ==
    IF ~(i <= Len(records) /\ Len(acc.claims) < MAX_CLAIMS) THEN acc
    ELSE LET claim == recordClaim(cols, records[i], i)
         IN  BuildLoop(cols, records, i + 1,
                [claims |-> Push(acc.claims, claim),
                 totalEstimatedValue |->
                    Plus(acc.totalEstimatedValue, claim.f.estimatedValue),
                 messages |-> Push(acc.messages, recordMessage(claim))])

buildClaimsFromRecords(cols, records) ==
    IF Len(records) = 0 THEN NoClaimsBuilt
    ELSE BuildLoop(cols, records, 1, NoClaimsBuilt)

\* ------------------------------------------------------------------------
\* Audit requests: inputs
\* ------------------------------------------------------------------------
\* longest classifier reply and longest parsed record list
MaxReply == 2
MaxRecords == 2

\* what JSON.parse(clean) yields: kind "invalid" when it throws; items are the
\* elements of an array, or of the claims array of an object (hasClaims);
\* messages are the entries of the object's messages array
Parsed(kind, hasClaims, items, messages) ==
    [kind |-> kind, hasClaims |-> hasClaims, items |-> items,
     messages |-> messages]

ReplyElements ==
    {Obj(Base), Obj(ScenarioB9), Obj(BaseRow),
     Obj([Base EXCEPT !.sku = Num(5000)]),
     Obj([Base EXCEPT !.estimatedValue = Str(t12p5usd)]),
     Obj([Base EXCEPT !.estimatedValue = Undefined]),
     Obj([Base EXCEPT !.estimatedValue = Num(4)]),
     Prim(Null), Prim(Num(5000))}

tMessage == <<"H", "e", "l", "l", "o">>
MessageDraft(sku, reason, message) ==
    [sku |-> sku, reason |-> reason, message |-> message]
ReplyMessages ==
    {<<>>,
     <<MessageDraft(Str(tA1), Str(tLost), Str(tMessage))>>,
     <<MessageDraft(Str(tA1), Undefined, Str(tBlank))>>}

ParsedReplies ==
    {Parsed("invalid", FALSE, <<>>, <<>>), Parsed("null", FALSE, <<>>, <<>>),
     Parsed("object", FALSE, <<>>, <<>>)}
    \cup {Parsed("array", FALSE, q, <<>>) : q \in SeqsUpTo(ReplyElements, MaxReply)}
    \cup {Parsed("object", TRUE, q, ms) :
            q \in SeqsUpTo(ReplyElements, 1), ms \in ReplyMessages}

\* the classifier call: the fetch rejects, answers with an error status, or
\* answers with text
Replies ==
    {[kind |-> "rejected", parsed |-> Parsed("invalid", FALSE, <<>>, <<>>)],
     [kind |-> "notOk", parsed |-> Parsed("invalid", FALSE, <<>>, <<>>)]}
    \cup {[kind |-> "text", parsed |-> pz] : pz \in ParsedReplies}

tPrice == <<"$", "1", "2", ".", "5", "0">>
RecordRows ==
    {[NoCells EXCEPT !.sku = Str(tA1), !.quantity = Str(tMinusThree),
                     !.value = Str(tPrice), !.reason = Str(tLost),
                     !.txn = Str(tT1)],
     [NoCells EXCEPT !.sku = Str(tB9), !.quantity = Str(tThree),
                     !.value = Str(tAbc), !.reason = Str(tBlank)],
     [NoCells EXCEPT !.sku = Str(<<>>), !.quantity = Str(tAbc),
                     !.value = Str(tZero)],
     [NoCells EXCEPT !.sku = Str(tA1), !.quantity = Str(InfinityText)],
     NoCells}

\* the columns findFieldName resolved on the first record
ColumnSets ==
    {{}, {"sku", "quantity"}, {"sku", "quantity", "reason", "txn"},
     {"sku", "quantity", "value", "reason", "txn"}}

\* ------------------------------------------------------------------------
\* Audit requests: handlers
\* ------------------------------------------------------------------------
\* /api/audit of src/server.js:29, of src/unnamed/part_003:121, of
\* src/unnamed/part_004:29 and :481, of src/unnamed/part_002:276;
\* /api/audit-upload of src/unnamed/part_002:358 and :619
Handlers ==
    {"serverAudit", "trackedAudit", "structuredAudit", "inlineAudit",
     "jsonAudit", "uploadAudit", "aiUpload"}

\* import { validateClaims } from "./utils/validateClaims.js" binds the
\* ledger-row variant of src/utils or the exported variant of part_000;
\* part_004:481 calls the function defined beside it
BoundValidators(h) ==
    CASE h \in {"trackedAudit", "structuredAudit"} -> {"rows", "clean"}
      [] h = "inlineAudit" -> {"inline"}
      [] OTHER -> {"none"}

Requests(h) ==
    CASE h \in {"jsonAudit", "uploadAudit"} ->
            {[NoRequest EXCEPT !.csvContent = FALSE, !.file = FALSE]}
            \cup {[NoRequest EXCEPT !.csvContent = TRUE, !.file = TRUE,
                                    !.tooLarge = big, !.readable = rd]
                    : big \in BOOLEAN, rd \in BOOLEAN}
            \cup {[NoRequest EXCEPT !.csvContent = TRUE, !.file = TRUE,
                                    !.userId = TRUE,
                                    !.cols = cs, !.records = rs]
                    : cs \in ColumnSets,
                      rs \in SeqsUpTo(RecordRows, MaxRecords)}
      [] h = "aiUpload" ->
            {[NoRequest EXCEPT !.csvContent = c, !.file = c,
                               !.tooLarge = big, !.readable = rd]
                : c \in BOOLEAN, big \in BOOLEAN, rd \in BOOLEAN}
      [] OTHER ->
            {[NoRequest EXCEPT !.csvContent = c, !.userId = u, !.file = c,
                               !.tooLarge = big]
                : c \in BOOLEAN, u \in BOOLEAN, big \in BOOLEAN}

InitAudit ==
    /\ ValidateIdle /\ PreprocessIdle /\ SplitIdle /\ BillingIdle
    /\ reply = NoReply
    /\ handler \in Handlers
    /\ validator \in BoundValidators(handler)
    /\ request \in Requests(handler)
    /\ apc = "received"
    /\ status = 0 /\ resClaims = <<>> /\ resTotal = Undefined
    /\ resMessages = <<>> /\ passedValidator = FALSE
    /\ truncatedRows = Undefined

\* res.status(st).json(...), truncated being meta.truncatedRows (Undefined
\* in a body that has none)
RespondMeta(st, claims, total, messages, passed, truncated) ==
    /\ apc' = "responded"
    /\ status' = st
    /\ resClaims' = claims
    /\ resTotal' = total
    /\ resMessages' = messages
    /\ passedValidator' = passed
    /\ truncatedRows' = truncated
    /\ UNCHANGED <<handler, validator, request, validateVars,
                   preprocessVars, splitVars,
                   billingVars>>

Respond(st, claims, total, messages, passed) ==
    RespondMeta(st, claims, total, messages, passed, Undefined)

RespondError(st) == Respond(st, <<>>, Undefined, <<>>, FALSE)

\* await fetch(MODEL_URL, ...)
AwaitClassifier ==
    /\ apc' = "awaiting"
    /\ UNCHANGED <<handler, validator, request, status, resClaims, resTotal,
                   resMessages, passedValidator, truncatedRows, validateVars,
                   preprocessVars, splitVars,
                   billingVars>>

\* src/server.js:29-83
ServerAuditReceive ==
    /\ UNCHANGED reply
    /\ handler = "serverAudit" /\ apc = "received"
    /\ IF ~request.csvContent THEN RespondError(400) ELSE AwaitClassifier

\* src/server.js:85-131: the parsed array is returned as it came
ServerAuditReply ==
    /\ handler = "serverAudit" /\ apc = "awaiting"
    /\ \E ans \in Replies :
        /\ reply' = ans
        /\ LET claims == ans.parsed.items
               total == totalEstimatedValue(claims)
           IN  IF ans.kind # "text" \/ ans.parsed.kind # "array"
                   \/ total.threw
               THEN RespondError(500)
               ELSE Respond(200, claims, total.v, <<>>, FALSE)

\* src/unnamed/part_003:121-172 and src/unnamed/part_004:481-533
GeminiAuditReceive ==
    /\ UNCHANGED reply
    /\ handler \in {"trackedAudit", "inlineAudit"} /\ apc = "received"
    /\ IF ~request.csvContent THEN RespondError(400) ELSE AwaitClassifier

\* src/unnamed/part_003:174-266 and src/unnamed/part_004:535-628:
\* claims = validateClaims(JSON.parse(clean)) inside the try
GeminiAuditReply ==
    /\ handler \in {"trackedAudit", "inlineAudit"} /\ apc = "awaiting"
    /\ \E ans \in Replies :
        /\ reply' = ans
        /\ LET pz == ans.parsed
               r == Run(validator, [arr |-> pz.kind = "array", items |-> pz.items])
           IN  IF ans.kind # "text" \/ pz.kind = "invalid" \/ r.threw
               THEN RespondError(500)
               ELSE Respond(200, r.out, totalEstimatedValue(r.out).v, <<>>, TRUE)

\* (m.sku || "").trim()
TrimOrEmpty(v) == IF Falsy(v) THEN <<>> ELSE Trim(v.s)
MessageThrows(m) ==
    \E v \in {m.sku, m.reason, m.message} : ~Falsy(v) /\ v.t # "string"

\* parsed.messages.map(...).filter((m) => m.message.length > 0)
normalizedMessages(ms) ==
    SelectSeq([i \in 1..Len(ms) |->
                  MessageDraft(Str(TrimOrEmpty(ms[i].sku)),
                               Str(TrimOrEmpty(ms[i].reason)),
                               Str(TrimOrEmpty(ms[i].message)))],
              LAMBDA m : m.message.s # <<>>)

\* src/unnamed/part_004:29-131
StructuredAuditReceive ==
    /\ UNCHANGED reply
    /\ handler = "structuredAudit" /\ apc = "received"
    /\ IF ~request.userId THEN RespondError(403) ELSE AwaitClassifier

\* src/unnamed/part_004:133-216
StructuredAuditReply ==
    /\ handler = "structuredAudit" /\ apc = "awaiting"
    /\ \E ans \in Replies :
        /\ reply' = ans
        /\ LET pz == ans.parsed
               rawClaims ==
                   IF pz.kind = "array" \/ pz.hasClaims THEN pz.items ELSE <<>>
               r == Run(validator, ArrayOf(rawClaims))
           IN  IF \/ ans.kind # "text" \/ pz.kind \in {"invalid", "null"}
                  \/ r.threw
                  \/ \E i \in 1..Len(pz.messages) : MessageThrows(pz.messages[i])
               THEN RespondError(500)
               ELSE Respond(200, r.out, totalEstimatedValue(r.out).v,
                            normalizedMessages(pz.messages), TRUE)

\* For safety, only use up to 10k rows in JSON mode
MAX_ROWS_JSON_MODE == 10000

\* src/unnamed/part_002:276-346
JsonAudit ==
    /\ UNCHANGED reply
    /\ handler = "jsonAudit" /\ apc = "received"
    /\ IF ~request.csvContent THEN RespondError(400)
       ELSE IF request.tooLarge THEN RespondError(413)
       ELSE IF ~request.readable THEN RespondError(400)
       ELSE LET records ==
                    IF Len(request.records) > MAX_ROWS_JSON_MODE
                    THEN SubSeq(request.records, 1, MAX_ROWS_JSON_MODE)
                    ELSE request.records
                built == buildClaimsFromRecords(request.cols, records)
            IN  RespondMeta(200, built.claims, built.totalEstimatedValue,
                            built.messages, FALSE,
                            Bool(Len(records) > MAX_ROWS_JSON_MODE))

\* rows.length < MAX_CLAIMS * 4: the rows buffered from the stream
BufferedRows(records) ==
    IF Len(records) > MAX_CLAIMS * 4
    THEN SubSeq(records, 1, MAX_CLAIMS * 4) ELSE records

\* src/unnamed/part_002:358-439
UploadAudit ==
    /\ UNCHANGED reply
    /\ handler = "uploadAudit" /\ apc = "received"
    /\ IF ~request.file THEN RespondError(400)
       ELSE IF ~request.readable THEN RespondError(500)
       ELSE LET rows == BufferedRows(request.records)
                built == buildClaimsFromRecords(request.cols, rows)
            IN  IF Len(rows) = 0
                THEN Respond(200, <<>>, Num(0), <<>>, FALSE)
                ELSE Respond(200, built.claims, built.totalEstimatedValue,
                             built.messages, FALSE)

\* the handler never answers: the exception is raised inside the stream's
\* "end" callback, outside the try of the handler
NoResponse ==
    /\ apc' = "hung"
    /\ UNCHANGED <<handler, validator, request, status, resClaims, resTotal,
                   resMessages, passedValidator, truncatedRows, validateVars,
                   preprocessVars, splitVars,
                   billingVars>>

\* src/unnamed/part_002:619-626 and 675-678: req.file.path throws inside the
\* try when no file came; the read stream has no "error" listener, so a
\* read error is an uncaught exception
AiUploadReceive ==
    /\ UNCHANGED reply
    /\ handler = "aiUpload" /\ apc = "received"
    /\ IF ~request.file THEN RespondError(500)
       ELSE IF ~request.readable THEN NoResponse
       ELSE AwaitClassifier

\* src/unnamed/part_002:627-674: res.json(parsed), the classifier's object
AiUploadReply ==
    /\ handler = "aiUpload" /\ apc = "awaiting"
    /\ IF request.tooLarge THEN RespondError(413) /\ UNCHANGED reply
       ELSE \E ans \in Replies :
            /\ reply' = ans
            /\ IF ans.kind # "text" \/ ans.parsed.kind = "invalid"
               THEN NoResponse
               ELSE Respond(200, ans.parsed.items, Undefined,
                            ans.parsed.messages, FALSE)

NextAudit ==
    \/ ServerAuditReceive \/ ServerAuditReply
    \/ GeminiAuditReceive \/ GeminiAuditReply
    \/ StructuredAuditReceive \/ StructuredAuditReply
    \/ JsonAudit \/ UploadAudit
    \/ AiUploadReceive \/ AiUploadReply

SpecAudit == InitAudit /\ [][NextAudit]_vars

\* /api/audit-upload alone; the event loop runs every callback that is ready
InitUpload == InitAudit /\ handler \in {"uploadAudit", "aiUpload"}

NextUpload == UploadAudit \/ AiUploadReceive \/ AiUploadReply

\* a pending handler runs its next callback: each step of NextUpload moves
\* apc, and one is possible exactly while the request is received or awaited
HandlerStep ==
    /\ apc \in {"received", "awaiting"}
    /\ apc' \in {"awaiting", "responded", "hung"} /\ apc' # apc

SpecUpload == InitUpload /\ [][NextUpload]_vars /\ WF_apc(HandlerStep)

\* ------------------------------------------------------------------------
\* Audit responses
\* ------------------------------------------------------------------------
Succeeded == apc = "responded" /\ status = 200

\* the sum of estimatedValue over a claims sequence, each a number
RECURSIVE SumOfEstimatedValue(_, _)
SumOfEstimatedValue(claims, i) ==
    IF i > Len(claims) THEN Num(0)
    ELSE Plus(claims[i].f.estimatedValue,
              SumOfEstimatedValue(claims, i + 1))

\* C9: in every successful audit response that carries a total, each returned
\* claim has a numeric estimatedValue and totalEstimatedValue is their sum
\* (0 for no claims), not rounded afterwards.
C9_TotalIsExactSum ==
    (Succeeded /\ resTotal # Undefined) =>
        /\ \A i \in 1..Len(resClaims) :
            /\ ~PropertyReadThrows(resClaims[i])
            /\ resClaims[i].f.estimatedValue.t = "number"
        /\ resTotal = SumOfEstimatedValue(resClaims, 1)

\* C10: a successful audit response that returns claims returns the output of
\* validateClaims: the handler called it on the claims before the total and
\* the response.
C10_ValidatedBeforeResponse ==
    (Succeeded /\ Len(resClaims) > 0) => passedValidator

\* ------------------------------------------------------------------------
\* The disposition-based labels of src/utils/validateClaims.js
\* ------------------------------------------------------------------------
\* the label of a row under the priority order SELLABLE, any other
\* disposition, Adjustments without a disposition; Null where the order
\* names none
PriorityLabel(f) ==
    LET disposition == OptionalTrim(f.disposition)
        eventType == OptionalTrim(f.transactionType)
    IN  IF disposition = Str(tSELLABLE) THEN Str(tLostInventory)
        ELSE IF ~Falsy(disposition) THEN Str(tDamagedInventory)
        ELSE IF eventType = Str(tAdjustments) THEN Str(tUnexplained)
        ELSE Null

\* C16: the claim emitted for a lone negative-quantity ledger row carries the
\* label of the priority order: "Lost Inventory" for disposition SELLABLE,
\* "Damaged Inventory" for any other disposition, "Unexplained Adjustment
\* Loss" for an Adjustments row with no disposition.
C16_LabelPriority ==
    (Called /\ impl = "rows" /\ ~first.threw /\ Len(Candidates) = 1
        /\ Len(Emitted) = 1
        /\ LtZero(ParseFloat(Candidates[1].f.quantity))
        /\ PriorityLabel(Candidates[1].f) # Null) =>
        Emitted[1].f.claimReason = PriorityLabel(Candidates[1].f)

\* ------------------------------------------------------------------------
\* Classifier failures
\* ------------------------------------------------------------------------
\* the classifier call was rejected, answered with an error status, or
\* answered text that is no JSON, or JSON that is neither a list nor an
\* object holding a claims list
ClassifierFailed ==
    \/ reply.kind \in {"rejected", "notOk"}
    \/ /\ reply.kind = "text"
       /\ reply.parsed.kind # "array"
       /\ ~reply.parsed.hasClaims

\* C13: an audit request of the classifier-backed /api/audit handlers whose
\* classifier call failed, or whose classifier output is no candidate list, is
\* answered with an error status, never with a success response.
C13_ClassifierFailureIsError ==
    (/\ handler \in {"serverAudit", "trackedAudit", "inlineAudit",
                     "structuredAudit"}
     /\ apc = "responded" /\ ClassifierFailed) => status >= 400

\* ------------------------------------------------------------------------
\* CSV text
\* ------------------------------------------------------------------------
UpperLetters == <<"A", "B", "C", "D", "E", "F", "G", "H", "I", "J", "K", "L", "M", "N", "O", "P", "Q", "R", "S", "T", "U", "V", "W", "X", "Y", "Z">>
LowerLetters == <<"a", "b", "c", "d", "e", "f", "g", "h", "i", "j", "k", "l", "m", "n", "o", "p", "q", "r", "s", "t", "u", "v", "w", "x", "y", "z">>

LowerChar(c) ==
    IF \E i \in 1..26 : UpperLetters[i] = c
    THEN LowerLetters[CHOOSE i \in 1..26 : UpperLetters[i] = c]
    ELSE c

\* String.prototype.toLowerCase
ToLowerCase(cs) == [i \in 1..Len(cs) |-> LowerChar(cs[i])]

\* String.prototype.includes
Includes(cs, sub) ==
    \E i \in 1..(Len(cs) + 1) : HasPrefixAt(cs, i, sub)

\* String.prototype.split on a one-character separator: the pieces between
\* consecutive separators (position 0 and Len + 1 stand for the two ends)
Split(cs, d) ==
    LET at == SelectSeq([i \in 1..Len(cs) |-> i], LAMBDA i : cs[i] = d)
        Nth(k) ==
            IF k = 0 THEN 0
            ELSE IF k > Len(at) THEN Len(cs) + 1
            ELSE at[k]
    IN  [k \in 1..(Len(at) + 1) |->
            SubSeq(cs, Nth(k - 1) + 1, Nth(k) - 1)]

\* Array.prototype.join on a one-character separator
RECURSIVE Join(_, _)
Join(parts, d) ==
    IF parts = <<>> THEN <<>>
    ELSE IF Len(parts) = 1 THEN parts[1]
    ELSE LET half == Len(parts) \div 2
         IN  Join(SubSeq(parts, 1, half), d) \o <<d>>
                \o Join(SubSeq(parts, half + 1, Len(parts)), d)

\* split(/\r?\n/): a carriage return right before a line feed goes with it
SplitLines(cs) ==
    LET pieces == Split(cs, "\n")
    IN  [i \in 1..Len(pieces) |->
            IF i < Len(pieces) /\ pieces[i] # <<>>
                /\ pieces[i][Len(pieces[i])] = "\r"
            THEN SubSeq(pieces[i], 1, Len(pieces[i]) - 1)
            ELSE pieces[i]]

\* replace(/"/g, '')
WithoutQuotes(cs) == SelectSeq(cs, LAMBDA c : c # "\"")

\* replace(/^"|"$/g, "")
WithoutEdgeQuotes(cs) ==
    LET a == IF cs # <<>> /\ cs[1] = "\"" THEN Tail(cs) ELSE cs
    IN  IF a # <<>> /\ a[Len(a)] = "\"" THEN SubSeq(a, 1, Len(a) - 1) ELSE a

\* splitCsvLine: the for loop from position i, outside or inside quotes
RECURSIVE SplitCsvFrom(_, _, _, _)
SplitCsvFrom(ln, i, current, inQuotes) ==
    IF i > Len(ln) THEN <<current>>
    ELSE IF ln[i] = "\""
    THEN IF inQuotes /\ i < Len(ln) /\ ln[i + 1] = "\""
         THEN SplitCsvFrom(ln, i + 2, Append(current, "\""), inQuotes)
         ELSE SplitCsvFrom(ln, i + 1, current, ~inQuotes)
    ELSE IF ln[i] = "," /\ ~inQuotes
    THEN <<current>> \o SplitCsvFrom(ln, i + 1, <<>>, inQuotes)
    ELSE SplitCsvFrom(ln, i + 1, Append(current, ln[i]), inQuotes)

splitCsvLine(ln) == SplitCsvFrom(ln, 1, <<>>, FALSE)

\* safeCell(cells, idx), idx counted from 0 and -1 for no column
safeCell(cs, idx) ==
    IF idx < 0 \/ idx >= Len(cs) THEN <<>>
    ELSE Trim(WithoutEdgeQuotes(cs[idx + 1]))

\* ------------------------------------------------------------------------
\* preprocessCSV of the ledger preprocessor (src/unnamed/part_001)
\* ------------------------------------------------------------------------
\* The properties of an emitted row, over the three preprocessors; Undefined
\* is an absent property.
NoRowFields ==
    [sku |-> Undefined, quantity |-> Undefined, reason |-> Undefined,
     referenceId |-> Undefined, rawReason |-> Undefined,
     claimReason |-> Undefined, estimatedValue |-> Undefined,
     amazonTransactionId |-> Undefined]

\* headers.findIndex((h) => h.includes(cand)), -1 for none
FindIndexIncluding(headers, cand) ==
    LET hits == {i \in 1..Len(headers) : Includes(headers[i], cand)}
    IN  IF hits = {} THEN 0 - 1
        ELSE (CHOOSE i \in hits : \A j \in hits : i <= j) - 1

\* findCol: candidate by candidate, the first header that includes it
RECURSIVE findCol(_, _)
findCol(headers, candidates) ==
    IF candidates = <<>> THEN 0 - 1
    ELSE LET idx == FindIndexIncluding(headers, Head(candidates))
         IN  IF idx # 0 - 1 THEN idx ELSE findCol(headers, Tail(candidates))

SkuCandidates ==
    <<<<"s", "e", "l", "l", "e", "r", " ", "s", "k", "u">>,
      <<"s", "e", "l", "l", "e", "r", "_", "s", "k", "u">>,
      <<"s", "k", "u">>,
      <<"p", "r", "o", "d", "u", "c", "t", " ", "s", "k", "u">>,
      <<"a", "s", "i", "n">>>>
QtyCandidates ==
    <<<<"q", "u", "a", "n", "t", "i", "t", "y">>,
      <<"q", "t", "y">>,
      <<"q", "u", "a", "n", "t", "i", "t", "y", "-", "c", "h", "a", "n", "g", "e">>,
      <<"q", "u", "a", "n", "t", "i", "t", "y", " ", "c", "h", "a", "n", "g", "e">>,
      <<"q", "u", "a", "n", "t", "i", "t", "y", " ", "a", "d", "j", "u", "s", "t", "e", "d">>,
      <<"q", "u", "a", "n", "t", "i", "t", "y", " ", "a", "d", "j", "u", "s", "t", "e", "d">>>>
ReasonCandidates ==
    <<<<"r", "e", "a", "s", "o", "n">>,
      <<"e", "v", "e", "n", "t", " ", "t", "y", "p", "e">>,
      <<"e", "v", "e", "n", "t", "-", "t", "y", "p", "e">>,
      <<"e", "v", "e", "n", "t", " ", "c", "o", "d", "e">>,
      <<"a", "d", "j", "u", "s", "t", "m", "e", "n", "t", " ", "t", "y", "p", "e">>,
      <<"a", "d", "j", "u", "s", "t", "m", "e", "n", "t", "-", "t", "y", "p", "e">>,
      <<"d", "i", "s", "p", "o", "s", "i", "t", "i", "o", "n">>,
      <<"m", "e", "m", "o">>>>
RefCandidates ==
    <<<<"r", "e", "f", "e", "r", "e", "n", "c", "e", " ", "i", "d">>,
      <<"r", "e", "f", "e", "r", "e", "n", "c", "e", "-", "i", "d">>,
      <<"t", "r", "a", "n", "s", "a", "c", "t", "i", "o", "n", " ", "i", "d">>,
      <<"i", "d">>,
      <<"e", "v", "e", "n", "t", " ", "i", "d">>>>

\* /lost|missing|damaged|warehouse|dispose|scrap|found|unfound|reimburs|claim/
LossPatterns ==
    <<<<"l", "o", "s", "t">>,
      <<"m", "i", "s", "s", "i", "n", "g">>,
      <<"d", "a", "m", "a", "g", "e", "d">>,
      <<"w", "a", "r", "e", "h", "o", "u", "s", "e">>,
      <<"d", "i", "s", "p", "o", "s", "e">>,
      <<"s", "c", "r", "a", "p">>,
      <<"f", "o", "u", "n", "d">>,
      <<"u", "n", "f", "o", "u", "n", "d">>,
      <<"r", "e", "i", "m", "b", "u", "r", "s">>,
      <<"c", "l", "a", "i", "m">>>>

\* safety cap on the rows kept for the classifier
MAX_ROWS_FOR_AI == 400

looksLikeLossOrDamage(qty, reasonLower) ==
    \/ LtZero(qty)
    \/ \E i \in 1..Len(LossPatterns) : Includes(reasonLower, LossPatterns[i])

\* the columns of the four fields on the header line
ledgerColumns(headerLine) ==
    LET rawHeaders == splitCsvLine(headerLine)
        headers == [i \in 1..Len(rawHeaders) |->
                        ToLowerCase(Trim(rawHeaders[i]))]
    IN  [sku |-> findCol(headers, SkuCandidates),
         qty |-> findCol(headers, QtyCandidates),
         reason |-> findCol(headers, ReasonCandidates),
         ref |-> findCol(headers, RefCandidates)]

\* parseFloat(qtyStr || "0") || 0
ledgerQty(qtyStr) ==
    OrZero(ParseFloat(Str(IF qtyStr = <<>> THEN <<"0">> ELSE qtyStr)))

ledgerRow(idx, ln) ==
    LET cs == splitCsvLine(ln)
        reason == safeCell(cs, idx.reason)
    IN  [NoRowFields EXCEPT
            !.sku = Str(safeCell(cs, idx.sku)),
            !.quantity = ledgerQty(safeCell(cs, idx.qty)),
            !.reason = Str(reason),
            !.referenceId = Str(safeCell(cs, idx.ref)),
            !.rawReason = Str(reason)]

\* the for loop without its break
LedgerLoopUnbounded(idx, lines) ==
    LET interesting(i) ==
            /\ i >= 2 /\ Trim(lines[i]) # <<>>
            /\ LET row == ledgerRow(idx, lines[i])
               IN  looksLikeLossOrDamage(row.quantity,
                                         ToLowerCase(row.reason.s))
        at == SelectSeq([i \in 1..Len(lines) |-> i], interesting)
    IN  [k \in 1..Len(at) |-> ledgerRow(idx, lines[at[k]])]

\* the rows the for loop over the data lines (1 is the header) keeps, in line
\* order: the loop is left right after the push that fills the cap
LedgerLoop(idx, lines) ==
    LET interesting(i) ==
            /\ i >= 2 /\ Trim(lines[i]) # <<>>
            /\ LET row == ledgerRow(idx, lines[i])
               IN  looksLikeLossOrDamage(row.quantity,
                                         ToLowerCase(row.reason.s))
        at == SelectSeq([i \in 1..Len(lines) |-> i], interesting)
        stop == IF MAX_ROWS_FOR_AI < 1 THEN 1 ELSE MAX_ROWS_FOR_AI
        kept == IF Len(at) > stop THEN stop ELSE Len(at)
    IN  [k \in 1..kept |-> ledgerRow(idx, lines[at[k]])]

preprocessLedger(csvText) ==
    IF Falsy(csvText) \/ csvText.t # "string" THEN Returned(<<>>)
    ELSE LET lines == SelectSeq(SplitLines(csvText.s),
                                LAMBDA l : Trim(l) # <<>>)
         IN  IF Len(lines) < 2 THEN Returned(<<>>)
             ELSE Returned(LedgerLoop(ledgerColumns(lines[1]), lines))

\* ------------------------------------------------------------------------
\* preprocessCSV of src/utils/parseCSV.js
\* ------------------------------------------------------------------------
\* obj[name] after headers.forEach((h, i) => { obj[h] = values[i] })
KeyedCell(headers, values, name) ==
    LET at == {i \in 1..Len(headers) : headers[i] = name}
        last == CHOOSE i \in at : \A j \in at : j <= i
    IN  IF at = {} \/ last > Len(values) THEN Undefined
        ELSE Str(values[last])

\* obj[a] || obj[b] || ... || fallback
RECURSIVE FirstCell(_, _, _, _)
FirstCell(headers, values, names, fallback) ==
    IF names = <<>> THEN fallback
    ELSE LET v == KeyedCell(headers, values, Head(names))
         IN  IF ~Falsy(v) THEN v
             ELSE FirstCell(headers, values, Tail(names), fallback)

SkuKeys ==
    <<<<"s", "k", "u">>,
      <<"S", "K", "U">>,
      <<"s", "k", "u", "-", "i", "d">>,
      <<"s", "e", "l", "l", "e", "r", "-", "s", "k", "u">>,
      <<"i", "t", "e", "m", "-", "s", "k", "u">>>>
ReasonKeys ==
    <<<<"r", "e", "a", "s", "o", "n">>,
      <<"d", "i", "s", "p", "o", "s", "i", "t", "i", "o", "n">>,
      <<"r", "e", "s", "e", "a", "r", "c", "h", "i", "n", "g">>,
      <<"r", "e", "a", "s", "o", "n", "-", "c", "o", "d", "e">>,
      <<"c", "l", "a", "i", "m", "s", "-", "r", "e", "a", "s", "o", "n">>>>
QuantityKeys ==
    <<<<"q", "u", "a", "n", "t", "i", "t", "y">>,
      <<"q", "t", "y">>,
      <<"q", "u", "a", "n", "t", "i", "t", "y", "-", "r", "e", "s", "e", "a", "r", "c", "h", "e", "d">>,
      <<"a", "d", "j", "u", "s", "t", "e", "d", "-", "q", "u", "a", "n", "t", "i", "t", "y">>>>
TransactionKeys ==
    <<<<"r", "e", "f", "e", "r", "e", "n", "c", "e", "-", "i", "d">>,
      <<"e", "v", "e", "n", "t", "-", "i", "d">>,
      <<"t", "r", "a", "n", "s", "a", "c", "t", "i", "o", "n", "-", "i", "d">>,
      <<"a", "m", "a", "z", "o", "n", "-", "o", "r", "d", "e", "r", "-", "i", "d">>>>
tLostInventoryDefault == <<"L", "o", "s", "t", " ", "i", "n", "v", "e", "n", "t", "o", "r", "y">>

\* the value of one unit, in thousandths: quantity * 8.5
UNIT_VALUE == 8500

keyedRow(headers, ln) ==
    LET pieces == Split(ln, ",")
        values == [i \in 1..Len(pieces) |-> Trim(pieces[i])]
        sku == FirstCell(headers, values, SkuKeys, Str(<<>>))
        reason == FirstCell(headers, values, ReasonKeys,
                            Str(tLostInventoryDefault))
        parsed == ParseInt(FirstCell(headers, values, QuantityKeys, Num(1000)))
        quantity == MathAbs(IF IsNaN(parsed) THEN Num(1000) ELSE parsed)
        estimatedValue == ToFixed2(Times(quantity, Num(UNIT_VALUE)))
        txn == FirstCell(headers, values, TransactionKeys, Str(<<>>))
    IN  [NoRowFields EXCEPT
            !.sku = Str(Trim(StringOf(sku))),
            !.reason = Str(Trim(StringOf(reason))),
            !.quantity = quantity,
            !.estimatedValue = ParseFloat(Str(estimatedValue)),
            !.amazonTransactionId = IF Falsy(txn) THEN Str(tNA) ELSE txn]

preprocessKeyed(csvContent) ==
    IF Falsy(csvContent) \/ csvContent.t # "string" THEN Returned(<<>>)
    ELSE LET lines == Split(Trim(csvContent.s), "\n")
             cols == Split(lines[1], ",")
             headers == [i \in 1..Len(cols) |-> Trim(cols[i])]
         IN  Returned([i \in 1..(Len(lines) - 1) |->
                          keyedRow(headers, lines[i + 1])])

\* ------------------------------------------------------------------------
\* preprocessCSV inline in the server (src/unnamed/part_004:329)
\* ------------------------------------------------------------------------
\* KEY_HEADERS: the keys in insertion order, and the output key of each
KEY_HEADERS ==
    <<<<"s", "k", "u">>,
      <<"p", "r", "o", "d", "u", "c", "t", "-", "s", "k", "u">>,
      <<"t", "r", "a", "n", "s", "a", "c", "t", "i", "o", "n", "-", "t", "y", "p", "e">>,
      <<"e", "v", "e", "n", "t", "-", "t", "y", "p", "e">>,
      <<"q", "u", "a", "n", "t", "i", "t", "y">>,
      <<"s", "h", "i", "p", "p", "e", "d", "-", "q", "u", "a", "n", "t", "i", "t", "y">>,
      <<"r", "e", "f", "e", "r", "e", "n", "c", "e", "-", "i", "d">>,
      <<"t", "r", "a", "n", "s", "a", "c", "t", "i", "o", "n", "-", "i", "t", "e", "m", "-", "i", "d">>>>
KEY_OUTPUTS ==
    <<"sku", "sku", "claimReason", "claimReason", "quantity", "quantity",
      "amazonTransactionId", "amazonTransactionId">>

\* the rows sent to the classifier: rows.slice(0, 500)
MAX_ROWS_SENT == 500

\* KEY_HEADERS[Object.keys(KEY_HEADERS).find(key => header.includes(key))],
\* "" when no key is found
requiredKey(header) ==
    LET hits == {k \in 1..Len(KEY_HEADERS) : Includes(header, KEY_HEADERS[k])}
    IN  IF hits = {} THEN ""
        ELSE KEY_OUTPUTS[CHOOSE k \in hits : \A j \in hits : k <= j]

\* headerMap: per column, the output key it feeds ("" for none)
headerMap(headerLine, delimiter) ==
    LET cols == Split(ToLowerCase(headerLine), delimiter)
    IN  [i \in 1..Len(cols) |-> requiredKey(WithoutQuotes(Trim(cols[i])))]

\* rowData[key] after the forEach over the mapped columns in index order
rowDataCell(map, values, key) ==
    LET at == {i \in 1..Len(map) : map[i] = key}
        last == CHOOSE i \in at : \A j \in at : j <= i
    IN  IF at = {} \/ last > Len(values) THEN Undefined
        ELSE Str(values[last])

rowData(map, ln, delimiter) ==
    LET pieces == Split(ln, delimiter)
        values == [i \in 1..Len(pieces) |-> WithoutQuotes(Trim(pieces[i]))]
    IN  [NoRowFields EXCEPT
            !.sku = rowDataCell(map, values, "sku"),
            !.claimReason = rowDataCell(map, values, "claimReason"),
            !.quantity = rowDataCell(map, values, "quantity"),
            !.amazonTransactionId =
                rowDataCell(map, values, "amazonTransactionId")]

\* the rows the for loop over the data lines (1 is the header) pushes, in
\* line order
InlineRowsLoop(map, lines, delimiter) ==
    LET pushed(i) ==
            /\ i >= 2 /\ Trim(lines[i]) # <<>>
            /\ LET row == rowData(map, Trim(lines[i]), delimiter)
               IN  ~Falsy(row.sku) /\ GtZero(ParseInt(row.quantity))
        at == SelectSeq([i \in 1..Len(lines) |-> i], pushed)
    IN  [k \in 1..Len(at) |-> rowData(map, Trim(lines[at[k]]), delimiter)]

\* csvContent.trim() throws on a truthy value that is not a string
preprocessInline(csvContent) ==
    IF Falsy(csvContent) THEN Returned(<<>>)
    ELSE IF csvContent.t # "string" THEN Thrown
    ELSE LET lines == Split(Trim(csvContent.s), "\n")
             delimiter == IF Includes(csvContent.s, <<"\t">>) THEN "\t" ELSE ","
             all == InlineRowsLoop(headerMap(lines[1], delimiter), lines,
                                   delimiter)
         IN  Returned(IF Len(all) > MAX_ROWS_SENT
                      THEN SubSeq(all, 1, MAX_ROWS_SENT) ELSE all)

\* ------------------------------------------------------------------------
\* preprocessCSV: inputs
\* ------------------------------------------------------------------------
\* A CSV input is a value of some kind; a text is given by its lines, the
\* header first, each line by its cells as written between the commas.
HeaderLines ==
    {<<<<"s", "k", "u">>, <<"q", "u", "a", "n", "t", "i", "t", "y">>, <<"r", "e", "a", "s", "o", "n">>, <<"r", "e", "f", "e", "r", "e", "n", "c", "e", "-", "i", "d">>>>,
     <<<<"a", "s", "i", "n">>, <<"q", "u", "a", "n", "t", "i", "t", "y">>, <<"r", "e", "a", "s", "o", "n">>, <<"s", "k", "u">>>>,
     <<<<"s", "k", "u", " ", "i", "d">>, <<"q", "u", "a", "n", "t", "i", "t", "y">>, <<"r", "e", "a", "s", "o", "n">>, <<"m", "e", "m", "o">>>>,
     <<<<"p", "r", "o", "d", "u", "c", "t", "-", "s", "k", "u">>, <<"q", "u", "a", "n", "t", "i", "t", "y">>, <<"e", "v", "e", "n", "t", "-", "t", "y", "p", "e">>, <<"s", "k", "u">>>>,
     <<<<"f", "o", "o">>, <<"b", "a", "r">>, <<"b", "a", "z">>, <<"q", "u", "x">>>>,
     <<<<"S", "K", "U">>, <<"Q", "t", "y">>, <<"R", "e", "a", "s", "o", "n">>, <<"R", "e", "f", "e", "r", "e", "n", "c", "e", " ", "I", "D">>>>,
     <<<<"s", "k", "u">>, <<"q", "u", "a", "n", "t", "i", "t", "y">>, <<"r", "e", "a", "s", "o", "n">>, <<"s", "k", "u">>>>,
     <<<<>>>>}

DataLines ==
    {<<<<"A", "-", "1">>, <<"-", "3">>, <<"L", "o", "s", "t">>, <<"T", "1">>>>,
     <<<<"B", "-", "9">>, <<"5">>, <<"F", "o", "u", "n", "d">>, <<"T", "2">>>>,
     <<<<"C", "-", "2">>, <<"0">>, <<"D", "a", "m", "a", "g", "e", "d">>, <<"T", "3">>>>,
     <<<<>>, <<"2">>, <<"m", "i", "s", "s", "i", "n", "g">>, <<"T", "4">>>>,
     <<<<"D", "-", "4">>, <<" ", "4">>, <<"R", "e", "c", "e", "i", "v", "e", "d">>, <<"T", "5">>>>,
     <<<<"E", "-", "5">>, <<"1">>, <<"D", "e", "f", "e", "c", "t", "i", "v", "e">>, <<"T", "6">>>>,
     <<<<>>>>}

\* most data lines of an input
MaxLines == 2

CsvInputs ==
    {[kind |-> k, lines |-> <<>>] : k \in {"undefined", "number", "object", "text"}}
    \cup {[kind |-> "text", lines |-> <<h>> \o ls] :
            h \in HeaderLines, ls \in SeqsUpTo(DataLines, MaxLines)}

\* the text of the lines
CsvText(lines) ==
    Join([i \in 1..Len(lines) |-> Join(lines[i], ",")], "\n")

\* the argument passed to preprocessCSV
CsvValue(c) ==
    CASE c.kind = "text" -> Str(CsvText(c.lines))
      [] c.kind = "number" -> Num(5000)
      [] c.kind = "object" -> ObjVal
      [] OTHER -> Undefined

\* every line has as many cells as the header
Rectangular(c) ==
    /\ c.kind = "text" /\ Len(c.lines) >= 2
    /\ \A i \in 1..Len(c.lines) : Len(c.lines[i]) = Len(c.lines[1])

\* the permutations of 1..n, as sequences
Permutations(n) ==
    {p \in [1..n -> 1..n] : \A i, j \in 1..n : p[i] = p[j] => i = j}

\* the same permutation applied to the cells of every line
PermuteColumns(c, p) ==
    [c EXCEPT !.lines =
        [i \in 1..Len(c.lines) |->
            [j \in 1..Len(p) |-> c.lines[i][p[j]]]]]

\* ------------------------------------------------------------------------
\* A caller applying one preprocessCSV to an input, then to the input with
\* its columns permuted
\* ------------------------------------------------------------------------
Preprocessors == {"ledger", "keyed", "inline"}

RunPreprocess(which, v) ==
    CASE which = "ledger" -> preprocessLedger(v)
      [] which = "keyed" -> preprocessKeyed(v)
      [] OTHER -> preprocessInline(v)

\* the column whose cell ends up in rowData[key]: the last one mapped to key
lastMapped(map, key) ==
    LET at == {i \in 1..Len(map) : map[i] = key}
    IN  IF at = {} THEN 0 - 1
        ELSE (CHOOSE i \in at : \A j \in at : j <= i) - 1

\* the column resolved for each field by the header of the text
Resolve(which, v) ==
    IF v.t # "string" \/ Falsy(v) THEN NoBinding
    ELSE IF which = "ledger"
    THEN LET lines == SelectSeq(SplitLines(v.s), LAMBDA l : Trim(l) # <<>>)
             idx == ledgerColumns(lines[1])
         IN  IF Len(lines) < 2 THEN NoBinding
             ELSE [sku |-> idx.sku, quantity |-> idx.qty,
                   reason |-> idx.reason, ref |-> idx.ref]
    ELSE IF which = "inline"
    THEN LET lines == Split(Trim(v.s), "\n")
             map == headerMap(lines[1],
                        IF Includes(v.s, <<"\t">>) THEN "\t" ELSE ",")
         IN  [sku |-> lastMapped(map, "sku"),
              quantity |-> lastMapped(map, "quantity"),
              reason |-> lastMapped(map, "claimReason"),
              ref |-> lastMapped(map, "amazonTransactionId")]
    ELSE NoBinding

InitPreprocess ==
    /\ pre \in Preprocessors
    /\ csv \in CsvInputs
    /\ perm = <<>> /\ binding = NoBinding
    /\ preRows = Returned(<<>>) /\ permRows = Returned(<<>>)
    /\ ppc = "call"
    /\ ValidateIdle /\ AuditIdle /\ SplitIdle /\ BillingIdle

Preprocess ==
    /\ ppc = "call"
    /\ preRows' = RunPreprocess(pre, CsvValue(csv))
    /\ binding' = Resolve(pre, CsvValue(csv))
    /\ ppc' = IF preRows'.threw THEN "threw" ELSE "returned"
    /\ UNCHANGED <<pre, csv, perm, permRows, validateVars, auditVars, splitVars,
                   billingVars>>

PreprocessPermuted ==
    /\ ppc = "returned" /\ Rectangular(csv)
    /\ \E p \in Permutations(Len(csv.lines[1])) :
        /\ perm' = p
        /\ permRows' = RunPreprocess(pre, CsvValue(PermuteColumns(csv, p)))
    /\ ppc' = IF permRows'.threw THEN "rethrew" ELSE "permuted"
    /\ UNCHANGED <<pre, csv, binding, preRows, validateVars, auditVars,
                   splitVars,
                   billingVars>>

NextPreprocess == Preprocess \/ PreprocessPermuted

SpecPreprocess == InitPreprocess /\ [][NextPreprocess]_vars

\* ------------------------------------------------------------------------
\* Claims about preprocessCSV (SpecPreprocess)
\* ------------------------------------------------------------------------
Preprocessed == ppc \notin {"idle", "call"}
EmittedRows == preRows.out

\* the data lines of a text input
DataOf(c) == SubSeq(c.lines, 2, Len(c.lines))

\* the cell of a line under column idx (from 0), trimmed; empty for no cell
CellAt(ln, idx) ==
    IF idx < 0 \/ idx >= Len(ln) THEN <<>> ELSE Trim(ln[idx + 1])

\* a text input with a non-blank header and one non-blank data line
LoneLine ==
    /\ csv.kind = "text" /\ Len(csv.lines) = 2
    /\ Trim(Join(csv.lines[1], ",")) # <<>>
    /\ Trim(Join(csv.lines[2], ",")) # <<>>

\* the quantity and the lower-cased reason of the lone data line, read under
\* the resolved columns
LoneQuantity == ParseFloat(Str(CellAt(csv.lines[2], binding.quantity)))
LoneReason == ToLowerCase(CellAt(csv.lines[2], binding.reason))

\* C11: every row emitted by the ledger preprocessor and by
\* src/utils/parseCSV.js has a quantity > 0.
C11_EmittedQuantityPositive ==
    (Preprocessed /\ pre \in {"ledger", "keyed"}) =>
        \A i \in 1..Len(EmittedRows) : GtZero(EmittedRows[i].quantity)

EligibilityKeywords ==
    <<<<"l", "o", "s", "t">>,
      <<"m", "i", "s", "s", "i", "n", "g">>,
      <<"d", "a", "m", "a", "g", "e", "d">>,
      <<"w", "a", "r", "e", "h", "o", "u", "s", "e">>,
      <<"d", "i", "s", "p", "o", "s", "e">>,
      <<"s", "c", "r", "a", "p">>,
      <<"d", "e", "f", "e", "c", "t", "i", "v", "e">>,
      <<"d", "e", "s", "t", "r", "o", "y">>,
      <<"m", "i", "s", "m", "a", "t", "c", "h">>,
      <<"m", "i", "s", "p", "l", "a", "c", "e", "d">>,
      <<"n", "o", "t", " ", "r", "e", "t", "u", "r", "n", "e", "d">>,
      <<"c", "u", "s", "t", "o", "m", "e", "r", "_", "r", "e", "t", "u", "r", "n">>,
      <<"a", "d", "j", "u", "s", "t", "m", "e", "n", "t">>,
      <<"r", "e", "i", "m", "b", "u", "r", "s">>,
      <<"c", "l", "a", "i", "m">>>>

HasEligibilityKeyword(reasonLower) ==
    \E i \in 1..Len(EligibilityKeywords) :
        Includes(reasonLower, EligibilityKeywords[i])

\* C12: the ledger preprocessor emits a lone data line of non-zero quantity
\* if and only if the quantity is negative or the lower-cased reason contains
\* one of the eligibility keywords.
C12_EmittedIffEligible ==
    (/\ Preprocessed /\ pre = "ledger" /\ LoneLine
     /\ binding.quantity >= 0 /\ binding.reason >= 0
     /\ LoneQuantity.k = "fin" /\ LoneQuantity.n # 0) =>
        (Len(EmittedRows) = 1
            <=> (LtZero(LoneQuantity) \/ HasEligibilityKeyword(LoneReason)))

\* the aliases of each field: the candidates of findCol, and the keys of
\* KEY_HEADERS per output key
Aliases(which, field) ==
    IF which = "ledger"
    THEN CASE field = "sku" -> SkuCandidates
           [] field = "quantity" -> QtyCandidates
           [] field = "reason" -> ReasonCandidates
           [] OTHER -> RefCandidates
    ELSE CASE field = "sku" -> SubSeq(KEY_HEADERS, 1, 2)
           [] field = "reason" -> SubSeq(KEY_HEADERS, 3, 4)
           [] field = "quantity" -> SubSeq(KEY_HEADERS, 5, 6)
           [] OTHER -> SubSeq(KEY_HEADERS, 7, 8)

\* the first header, in column order, whose lower-cased text contains any
\* alias (columns from 0, -1 for none)
FirstHeaderWithAlias(header, aliases) ==
    LET hits == {i \in 1..Len(header) :
                    \E a \in 1..Len(aliases) :
                        Includes(ToLowerCase(Trim(header[i])), aliases[a])}
    IN  IF hits = {} THEN 0 - 1
        ELSE (CHOOSE i \in hits : \A j \in hits : i <= j) - 1

Fields == {"sku", "quantity", "reason", "ref"}

\* C14: header resolution binds each field to the first header in column
\* order that contains any of its aliases, and no column is bound to two
\* fields.
C14_FirstHeaderOneField ==
    (/\ Preprocessed /\ pre \in {"ledger", "inline"}
     /\ csv.kind = "text" /\ Len(csv.lines) >= 2
     /\ \A i \in 1..Len(csv.lines) : Trim(Join(csv.lines[i], ",")) # <<>>) =>
        /\ \A f \in Fields :
            binding[f] = FirstHeaderWithAlias(csv.lines[1], Aliases(pre, f))
        /\ \A f, g \in Fields :
            (f # g /\ binding[f] >= 0) => binding[f] # binding[g]

\* C15: the rows emitted for the input with its columns permuted are the
\* rows emitted for the input.
C15_ColumnOrderInsensitive ==
    (ppc \in {"permuted", "rethrew"}) =>
        /\ ~permRows.threw
        /\ permRows.out = preRows.out

\* the data line is emitted by the preprocessor but for its sku
OtherwiseEligible ==
    IF pre = "ledger" THEN looksLikeLossOrDamage(OrZero(LoneQuantity), LoneReason)
    ELSE GtZero(ParseInt(Str(CellAt(csv.lines[2], binding.quantity))))

\* C17: every row emitted by the ledger and the inline preprocessor has a
\* non-empty sku, and a lone data line that is eligible but for its sku is
\* emitted all the same.
C17_SkuNeverEmpty ==
    (Preprocessed /\ ~preRows.threw /\ pre \in {"ledger", "inline"}) =>
        /\ \A i \in 1..Len(EmittedRows) :
            EmittedRows[i].sku.t = "string" /\ EmittedRows[i].sku.s # <<>>
        /\ (LoneLine /\ OtherwiseEligible) => Len(EmittedRows) = 1

\* the input is no text, or a text of fewer than two non-blank lines
Malformed ==
    \/ csv.kind # "text"
    \/ Cardinality({i \in 1..Len(csv.lines) :
                        Trim(Join(csv.lines[i], ",")) # <<>>}) < 2

\* C18: the ledger and the inline preprocessor return no rows, and raise
\* nothing, for an input that is empty, is no string, or has fewer than two
\* non-blank lines.
C18_MalformedGivesNoRows ==
    (Preprocessed /\ pre \in {"ledger", "inline"} /\ Malformed) =>
        /\ ~preRows.threw
        /\ EmittedRows = <<>>

\* no cell of the header line is a name any field is read from
HeaderUnresolved ==
    /\ csv.kind = "text" /\ Len(csv.lines) >= 1
    /\ \/ Trim(Join(csv.lines[1], ",")) = <<>>
       \/ IF pre = "keyed"
          THEN \A i \in 1..Len(csv.lines[1]) :
                \A names \in {SkuKeys, ReasonKeys, QuantityKeys, TransactionKeys} :
                    \A k \in 1..Len(names) : Trim(csv.lines[1][i]) # names[k]
          ELSE \A f \in Fields :
                FirstHeaderWithAlias(csv.lines[1], Aliases(pre, f)) = 0 - 1

\* C19: an input whose header line is blank, or resolves no field, gives no
\* rows and raises nothing, whatever data lines follow.
C19_EmptyHeaderGivesNoRows ==
    (Preprocessed /\ HeaderUnresolved) =>
        /\ ~preRows.threw
        /\ EmittedRows = <<>>

\* ------------------------------------------------------------------------
\* Splitting a data line into cells
\* ------------------------------------------------------------------------
\* the cells the ledger preprocessor reads from a line: safeCell over
\* splitCsvLine
ledgerCells(ln) ==
    LET parts == splitCsvLine(ln)
    IN  [i \in 1..Len(parts) |-> safeCell(parts, i - 1)]

\* line.split(delimiter).map(v => v.trim().replace(/"/g, ''))
inlineCells(ln) ==
    LET parts == Split(ln, IF Includes(ln, <<"\t">>) THEN "\t" ELSE ",")
    IN  [i \in 1..Len(parts) |-> WithoutQuotes(Trim(parts[i]))]

\* line.split(",").map(v => v.trim())
keyedCells(ln) ==
    LET parts == Split(ln, ",")
    IN  [i \in 1..Len(parts) |-> Trim(parts[i])]

RunSplit(which, ln) ==
    CASE which = "ledger" -> ledgerCells(ln)
      [] which = "inline" -> inlineCells(ln)
      [] OTHER -> keyedCells(ln)

\* a cell in quoted form: quotes around it, each quote inside it doubled
RECURSIVE DoubledQuotes(_)
DoubledQuotes(cs) ==
    IF cs = <<>> THEN <<>>
    ELSE (IF Head(cs) = "\"" THEN <<"\"", "\"">> ELSE <<Head(cs)>>)
         \o DoubledQuotes(Tail(cs))

QuotedLine(cs) ==
    Join([i \in 1..Len(cs) |-> <<"\"">> \o DoubledQuotes(cs[i]) \o <<"\"">>],
         ",")

CellTexts ==
    {<<"A", "-", "1">>,
     <<"a", ",", "b">>,
     <<"5", "\"", " ", "x">>,
     <<"\"", "h", "i", "\"">>,
     <<>>}

\* most cells of a line
MaxCells == 3

InitSplit ==
    /\ splitter \in Preprocessors
    /\ cells \in SeqsUpTo(CellTexts, MaxCells) \ {<<>>}
    /\ line = QuotedLine(cells)
    /\ split = <<>>
    /\ spc = "call"
    /\ ValidateIdle /\ AuditIdle /\ PreprocessIdle /\ BillingIdle

SplitLine ==
    /\ spc = "call"
    /\ split' = RunSplit(splitter, line)
    /\ spc' = "split"
    /\ UNCHANGED <<splitter, cells, line, validateVars, auditVars,
                   preprocessVars,
                   billingVars>>

NextSplit == SplitLine

SpecSplit == InitSplit /\ [][NextSplit]_vars

\* C20: splitting the quoted form of a list of cells gives the cells back: one
\* cell per delimiter outside quotes, doubled quotes read as one quote, only
\* the surrounding quotes removed.
C20_QuotedRoundTrip ==
    spc = "split" => split = cells

\* ------------------------------------------------------------------------
\* Claims about the claims built from parsed records (SpecAudit)
\* ------------------------------------------------------------------------
\* a 200 answer of a handler that builds its claims with
\* buildClaimsFromRecords
BuiltFromRecords ==
    /\ handler \in {"jsonAudit", "uploadAudit"}
    /\ apc = "responded" /\ status = 200

\* the unit cost of a record: its value cell when that parses to a number
unitCostOf(cols, row) ==
    IF "value" \in cols /\ row.value.t \notin {"undefined", "null"}
    THEN ParseFloat(Str(NumericChars(StringOf(row.value))))
    ELSE NaN

\* C21: the estimated value of a candidate is quantity * unitCost when its
\* row has a unit cost and quantity * 8.50 otherwise, quantity being the
\* absolute unit count
C21_ValueIsQuantityTimesUnitCost ==
    BuiltFromRecords =>
        \A i \in 1..Len(resClaims) :
            LET claim == resClaims[i].f
                quantity == MathAbs(claim.quantity)
                unitCost == unitCostOf(request.cols, request.records[i])
            IN  claim.estimatedValue =
                    IF unitCost.k = "fin"
                    THEN Times(quantity, MathAbs(unitCost))
                    ELSE Times(quantity, Num(UNIT_VALUE))

\* C22: in every audit response that carries messages, messages has the
\* length of claims and messages[i] has the sku and the reason of claims[i]
C22_MessagesAlignedWithClaims ==
    (/\ handler \in {"structuredAudit", "jsonAudit", "uploadAudit"}
     /\ apc = "responded" /\ status = 200) =>
        /\ Len(resMessages) = Len(resClaims)
        /\ \A i \in 1..Len(resMessages) :
                /\ resMessages[i].sku = resClaims[i].f.sku
                /\ resMessages[i].reason = resClaims[i].f.claimReason

\* ------------------------------------------------------------------------
\* preprocessCSV on files around the row caps
\* ------------------------------------------------------------------------
\* most lines of a file beyond a multiple of a cap, and the longest period at
\* which a line of the other sign comes back
MaxBeyond == 1
MaxPeriod == 2

tMinusOne == <<"-", "1">>
tTwo == <<"2">>
LongHeader ==
    <<<<"s", "k", "u">>, <<"q", "u", "a", "n", "t", "i", "t", "y">>>>

\* data line i of a long file: sku S<i>, and the quantity qty, or other on
\* every period-th line (never for period 0)
LongLine(i, qty, other, period) ==
    <<<<"S">> \o NatText(i),
      IF period > 0 /\ i % period = 0 THEN other ELSE qty>>

LongCsv(n, qty, other, period) ==
    [kind |-> "text",
     lines |-> <<LongHeader>> \o
                [i \in 1..n |-> LongLine(i, qty, other, period)]]

LongCounts ==
    {k * cap + d : k \in 1..2, cap \in {MAX_ROWS_FOR_AI, MAX_ROWS_SENT},
                   d \in (0 - MaxBeyond)..MaxBeyond}

\* the long files preprocessor p is called with
LongInputs(p) ==
    {LongCsv(n, qo[1], qo[2], period) :
        n \in LongCounts,
        qo \in {<<tMinusOne, tTwo>>, <<tTwo, tMinusOne>>},
        period \in 0..MaxPeriod}

InitCapped ==
    /\ pre \in {"ledger", "inline"}
    /\ csv \in LongInputs(pre)
    /\ perm = <<>> /\ binding = NoBinding
    /\ preRows = Returned(<<>>) /\ permRows = Returned(<<>>)
    /\ ppc = "call"
    /\ ValidateIdle /\ AuditIdle /\ SplitIdle /\ BillingIdle

NextCapped == Preprocess

SpecCapped == InitCapped /\ [][NextCapped]_vars

\* the cap of the preprocessor called
RowCap == IF pre = "ledger" THEN MAX_ROWS_FOR_AI ELSE MAX_ROWS_SENT

\* the data lines of the file that qualify, by line number: a negative
\* quantity for the heuristic preprocessor, a sku and a positive quantity
\* for the inline one
EligibleLines ==
    SelectSeq([i \in 1..Len(csv.lines) |-> i],
              LAMBDA i :
                /\ i >= 2
                /\ IF pre = "ledger"
                   THEN LtZero(ParseFloat(Str(csv.lines[i][2])))
                   ELSE /\ csv.lines[i][1] # <<>>
                        /\ GtZero(ParseInt(Str(csv.lines[i][2]))))

\* row k of the result is the whole line ln
RowOfLine(k, ln) ==
    /\ preRows.out[k].sku = Str(csv.lines[ln][1])
    /\ preRows.out[k].quantity =
            IF pre = "ledger" THEN ParseFloat(Str(csv.lines[ln][2]))
            ELSE Str(csv.lines[ln][2])

\* C23: one preprocessCSV call emits at most the row cap (400, and 500 in
\* the inline preprocessor): exactly the first cap-many eligible rows in
\* input order, each whole, the rest being discarded without error
C23_FirstRowsUpToCap ==
    (ppc # "call" /\ pre \in {"ledger", "inline"}) =>
        LET at == EligibleLines
            kept == IF Len(at) > RowCap THEN RowCap ELSE Len(at)
        IN  /\ ppc = "returned"
            /\ Len(preRows.out) <= RowCap
            /\ Len(preRows.out) = kept
            /\ \A k \in 1..kept : RowOfLine(k, at[k])

\* a file with more eligible rows than the cap, lines that do not qualify
\* among them, was cut at the cap
C23_Witness ==
    /\ ppc = "returned" /\ pre = "ledger"
    /\ Len(EligibleLines) > MAX_ROWS_FOR_AI
    /\ Len(EligibleLines) < Len(csv.lines) - 1
    /\ Len(preRows.out) = MAX_ROWS_FOR_AI

\* ------------------------------------------------------------------------
\* Audit requests on files around the caps
\* ------------------------------------------------------------------------
\* record i of a long file: sku S<i>, no sku on every period-th record
LongRecord(i, period) ==
    [NoCells EXCEPT
        !.sku = Str(IF period > 0 /\ i % period = 0 THEN <<>>
                    ELSE <<"S">> \o NatText(i)),
        !.quantity = Str(tTwo), !.reason = Str(tLost)]

LongRecordCounts ==
    {cap + d : cap \in {MAX_CLAIMS, MAX_CLAIMS * 4, MAX_ROWS_JSON_MODE},
               d \in (0 - MaxBeyond)..MaxBeyond}

\* the record lists of the long files
LongRecords(counts) ==
    {[i \in 1..n |-> LongRecord(i, period)] :
        n \in counts, period \in 0..MaxPeriod}

\* the long requests handler h can receive
LongRequests(h) ==
    {[NoRequest EXCEPT !.csvContent = TRUE, !.file = TRUE, !.userId = TRUE,
                       !.cols = cs, !.records = records] :
        cs \in ColumnSets, records \in LongRecords(LongRecordCounts)}

InitLongAudit ==
    /\ ValidateIdle /\ PreprocessIdle /\ SplitIdle /\ BillingIdle
    /\ reply = NoReply
    /\ handler \in {"jsonAudit", "uploadAudit"}
    /\ validator = "none"
    /\ request \in LongRequests(handler)
    /\ apc = "received"
    /\ status = 0 /\ resClaims = <<>> /\ resTotal = Undefined
    /\ resMessages = <<>> /\ passedValidator = FALSE
    /\ truncatedRows = Undefined

NextLongAudit == JsonAudit \/ UploadAudit

SpecLongAudit == InitLongAudit /\ [][NextLongAudit]_vars

\* the sku of the claim built from record k
SkuFromRecord(k) ==
    IF "sku" \in request.cols /\ request.records[k].sku.s # <<>>
    THEN request.records[k].sku
    ELSE Str(tUnknownSku \o NatText(k))

\* C24: buildClaimsFromRecords returns at most MAX_CLAIMS (50) claims, and
\* they are derived from the first records of the input in their order
C24_FirstRecordsUpToMaxClaims ==
    BuiltFromRecords =>
        /\ Len(resClaims) <= MAX_CLAIMS
        /\ Len(resClaims) = (IF Len(request.records) > MAX_CLAIMS
                             THEN MAX_CLAIMS ELSE Len(request.records))
        /\ \A k \in 1..Len(resClaims) :
                resClaims[k].f.sku = SkuFromRecord(k)

\* more records than the cap came, and the claims stop at the cap
C24_Witness ==
    /\ BuiltFromRecords
    /\ Len(request.records) > MAX_CLAIMS
    /\ Len(resClaims) = MAX_CLAIMS
    /\ resClaims[MAX_CLAIMS].f.sku = request.records[MAX_CLAIMS].sku

\* C30: in the JSON-mode response meta.truncatedRows is true exactly when
\* the parsed CSV had more than 10,000 records
C30_TruncatedRowsIffOverCap ==
    (handler = "jsonAudit" /\ apc = "responded" /\ status = 200) =>
        (truncatedRows = Bool(TRUE)
            <=> Len(request.records) > MAX_ROWS_JSON_MODE)

\* ------------------------------------------------------------------------
\* Claims about /api/audit-upload (SpecUpload)
\* ------------------------------------------------------------------------
\* C26: every request to /api/audit-upload eventually receives a response,
\* on every path: missing file, stream read error, oversized row count,
\* classifier call failure, classifier output that is not valid JSON
C26_UploadEventuallyAnswered ==
    (handler \in {"uploadAudit", "aiUpload"}) => <>(apc = "responded")

\* ------------------------------------------------------------------------
\* Firestore documents and the requests that write them
\* ------------------------------------------------------------------------
\* the users that requests and Stripe events name; NoUser is a missing id
Users == {"u1", "u2"}
NoUser == "none"

\* a field the document does not hold
Absent == 0 - 1

\* data.maxFreeAudits ?? 5
DEFAULT_FREE_AUDITS == 5

\* artifacts/<APP_ID>/users/<uid>/user_data/limits before its first write;
\* version counts the writes, as the document's update time does
NoLimits ==
    [exists |-> FALSE, isPremium |-> "absent", auditsUsed |-> Absent,
     maxFreeAudits |-> Absent, version |-> 0]

\* no Stripe event: the request is not a webhook delivery
NoEvent ==
    [id |-> 0, type |-> "none", user |-> NoUser, amount |-> 0,
     signed |-> FALSE, metadata |-> FALSE]

\* v ?? d on a numeric field
OrDefault(v, d) == IF v = Absent THEN d ELSE v

\* the counter a limits document shows to a reader
AuditsUsed(u) == OrDefault(limits[u].auditsUsed, 0)

\* every request so far has been answered or abandoned
Quiescent == \A i \in 1..Len(requests) : requests[i].pc \in {"done", "hung"}

\* requests with requests[i] changed to q
Moved(i, q) == [requests EXCEPT ![i] = q]

\* ------------------------------------------------------------------------
\* POST /api/audit with usage metering (part_003, part_004)
\* ------------------------------------------------------------------------
MaxAudits == 2

\* what the classifier call does: the fetch rejects, the reply is not ok,
\* the text is not a JSON array of claims, or the claims parse
ClassifierOutcomes == {"rejected", "notOk", "invalid", "ok"}

\* the bodies an audit request can carry
AuditInputs ==
    {[kind |-> "audit", user |-> u, csvContent |-> c, outcome |-> o,
      event |-> NoEvent, pc |-> "received", status |-> 0,
      snap |-> NoLimits, committed |-> FALSE, failed |-> FALSE] :
        u \in Users \cup {NoUser}, c \in BOOLEAN, o \in ClassifierOutcomes}

\* a client posts an audit request
AuditArrives ==
    /\ Len(requests) < MaxAudits
    /\ \E q \in AuditInputs : requests' = Append(requests, q)
    /\ UNCHANGED <<firestore, limits, history, accounts, onceOnly, hook>>
    /\ UNCHANGED <<validateVars, auditVars, preprocessVars, splitVars>>

\* the handler up to the Firestore block: 400 without csvContent, 500 when
\* the classifier call or its reply fails, 200 at once without Firestore or
\* without a userId, otherwise into runTransaction
AuditClassify(i) ==
    /\ i \in 1..Len(requests)
    /\ requests[i].kind = "audit" /\ requests[i].pc = "received"
    /\ LET q == requests[i]
           answer(st) == [q EXCEPT !.pc = "done", !.status = st]
       IN  requests' = Moved(i,
               IF ~q.csvContent THEN answer(400)
               ELSE IF q.outcome # "ok" THEN answer(500)
               ELSE IF firestore /\ q.user # NoUser
                    THEN [q EXCEPT !.pc = "txGet"]
               ELSE answer(200))
    /\ UNCHANGED <<firestore, limits, history, accounts, onceOnly, hook>>
    /\ UNCHANGED <<validateVars, auditVars, preprocessVars, splitVars>>

\* tx.get(limitsRef): the transaction reads the document
TxGet(i) ==
    /\ i \in 1..Len(requests)
    /\ requests[i].kind = "audit" /\ requests[i].pc = "txGet"
    /\ requests' = Moved(i, [requests[i] EXCEPT
                                 !.pc = "txCommit",
                                 !.snap = limits[requests[i].user]])
    /\ UNCHANGED <<firestore, limits, history, accounts, onceOnly, hook>>
    /\ UNCHANGED <<validateVars, auditVars, preprocessVars, splitVars>>

\* the document the transaction function sets from its snapshot:
\* data = snap.exists ? snap.data() : {}, then set(..., {merge: true})
TxSet(doc, snap) ==
    [doc EXCEPT !.exists = TRUE,
                !.auditsUsed = OrDefault(snap.auditsUsed, 0) + 1,
                !.maxFreeAudits =
                    OrDefault(snap.maxFreeAudits, DEFAULT_FREE_AUDITS),
                !.version = doc.version + 1]

\* whether the commit finds the document as the transaction read it
Unchanged(doc, snap) == doc.version = snap.version

\* runTransaction commits: applied when the document read is unchanged,
\* otherwise the transaction function runs again
TxCommit(i) ==
    /\ i \in 1..Len(requests)
    /\ requests[i].kind = "audit" /\ requests[i].pc = "txCommit"
    /\ LET q == requests[i]
           u == q.user
       IN  IF Unchanged(limits[u], q.snap)
           THEN /\ limits' = [limits EXCEPT ![u] = TxSet(limits[u], q.snap)]
                /\ requests' = Moved(i, [q EXCEPT !.pc = "history",
                                                  !.committed = TRUE])
           ELSE /\ limits' = limits
                /\ requests' = Moved(i, [q EXCEPT !.pc = "txGet"])
    /\ UNCHANGED <<firestore, history, accounts, onceOnly, hook>>
    /\ UNCHANGED <<validateVars, auditVars, preprocessVars, splitVars>>

\* runTransaction rejects (Firestore unreachable, retries exhausted): the
\* catch logs it and the claims are returned all the same
TxRejected(i) ==
    /\ i \in 1..Len(requests)
    /\ requests[i].kind = "audit"
    /\ requests[i].pc \in {"txGet", "txCommit"}
    /\ requests' = Moved(i, [requests[i] EXCEPT !.pc = "done",
                                                !.status = 200,
                                                !.failed = TRUE])
    /\ UNCHANGED <<firestore, limits, history, accounts, onceOnly, hook>>
    /\ UNCHANGED <<validateVars, auditVars, preprocessVars, splitVars>>

\* historyRef.add(...) after the transaction, then res.json(...)
HistoryAdd(i) ==
    /\ i \in 1..Len(requests)
    /\ requests[i].kind = "audit" /\ requests[i].pc = "history"
    /\ history' = [history EXCEPT ![requests[i].user] = @ + 1]
    /\ requests' = Moved(i, [requests[i] EXCEPT !.pc = "done",
                                                !.status = 200])
    /\ UNCHANGED <<firestore, limits, accounts, onceOnly, hook>>
    /\ UNCHANGED <<validateVars, auditVars, preprocessVars, splitVars>>

\* historyRef.add(...) rejects: caught with the same catch
HistoryRejected(i) ==
    /\ i \in 1..Len(requests)
    /\ requests[i].kind = "audit" /\ requests[i].pc = "history"
    /\ requests' = Moved(i, [requests[i] EXCEPT !.pc = "done",
                                                !.status = 200,
                                                !.failed = TRUE])
    /\ UNCHANGED <<firestore, limits, history, accounts, onceOnly, hook>>
    /\ UNCHANGED <<validateVars, auditVars, preprocessVars, splitVars>>

\* the entitlement document users/<uid> of the plan webhook, not written yet
NoAccount ==
    [isPremium |-> "absent", planType |-> "absent", auditsUsed |-> Absent,
     extraAuditCredits |-> Absent]

InitMetering ==
    /\ ValidateIdle /\ AuditIdle /\ PreprocessIdle /\ SplitIdle
    /\ firestore \in BOOLEAN
    /\ limits = [u \in Users |-> NoLimits]
    /\ history = [u \in Users |-> 0]
    /\ accounts = [u \in Users |-> NoAccount]
    /\ onceOnly = <<>>
    /\ requests = <<>>
    /\ hook = "none"

NextMetering ==
    \/ AuditArrives
    \/ \E i \in 1..MaxAudits : AuditClassify(i)
    \/ \E i \in 1..MaxAudits : TxGet(i)
    \/ \E i \in 1..MaxAudits : TxCommit(i)
    \/ \E i \in 1..MaxAudits : TxRejected(i)
    \/ \E i \in 1..MaxAudits : HistoryAdd(i)
    \/ \E i \in 1..MaxAudits : HistoryRejected(i)

SpecMetering == InitMetering /\ [][NextMetering]_vars

\* ------------------------------------------------------------------------
\* Claims about usage metering (SpecMetering)
\* ------------------------------------------------------------------------
\* the audit requests of user u that completed classification
Classified(u) ==
    {i \in 1..Len(requests) :
        /\ requests[i].kind = "audit" /\ requests[i].user = u
        /\ requests[i].csvContent /\ requests[i].outcome = "ok"}

\* the audit requests of user u whose transaction committed
Committed(u) == {i \in Classified(u) : requests[i].committed}

\* with transactions the counter is the number of commits: no update of a
\* concurrent request is overwritten
AuditsUsedCountsCommits ==
    \A u \in Users : AuditsUsed(u) = Cardinality(Committed(u))

\* C25: with Firestore configured, once the audit requests of a user have
\* been answered the user's auditsUsed is higher by exactly the number of
\* those requests that completed classification, whatever the interleaving;
\* requests whose classifier call failed add nothing
C25_EachClassifiedAuditCounted ==
    (firestore /\ Quiescent) =>
        \A u \in Users : AuditsUsed(u) = Cardinality(Classified(u))

\* ------------------------------------------------------------------------
\* Stripe webhooks: /api/stripe-webhook of part_003 ("lifecycle"),
\* /stripe-webhook of part_002 ("plan") and of server.js ("premium")
\* ------------------------------------------------------------------------
MaxDeliveries == 2

Hooks == {"lifecycle", "plan", "premium"}

tCheckout == "checkout.session.completed"
PremiumOnTypes ==
    {tCheckout, "customer.subscription.created",
     "customer.subscription.updated", "invoice.paid"}
PremiumOffTypes == {"customer.subscription.deleted", "invoice.payment_failed"}

\* a delivery: the event's id and type, the user id the handler reads from
\* it (metadata.firebaseUserId, client_reference_id, metadata.userId), the
\* session's amount_total, whether the signature header matches the body and
\* whether the object carries a metadata map at all
Ev(id, type, user, amount, signed, metadata) ==
    [id |-> id, type |-> type, user |-> user, amount |-> amount,
     signed |-> signed, metadata |-> metadata]

\* the events Stripe, or anybody else, posts to the endpoint
StripeEvents ==
    {Ev(1, tCheckout, "u1", 9900, TRUE, TRUE),
     Ev(2, tCheckout, "u1", 19900, TRUE, TRUE),
     Ev(3, tCheckout, "u1", 500, TRUE, TRUE),
     Ev(4, "customer.subscription.created", "u1", 0, TRUE, TRUE),
     Ev(5, "customer.subscription.updated", "u1", 0, TRUE, TRUE),
     Ev(6, "invoice.paid", "u1", 0, TRUE, TRUE),
     Ev(7, "customer.subscription.deleted", "u1", 0, TRUE, TRUE),
     Ev(8, "invoice.payment_failed", "u1", 0, TRUE, TRUE),
     Ev(9, "charge.refunded", "u1", 0, TRUE, TRUE),
     Ev(10, "customer.subscription.deleted", "u2", 0, TRUE, TRUE),
     Ev(11, tCheckout, NoUser, 19900, TRUE, TRUE),
     Ev(12, tCheckout, NoUser, 9900, TRUE, FALSE),
     Ev(13, tCheckout, "u1", 19900, FALSE, TRUE)}

\* Stripe, or a forger, posts an event; the same event may come again
WebhookArrives ==
    /\ Len(requests) < MaxDeliveries
    /\ \E e \in StripeEvents :
          requests' = Append(requests,
              [kind |-> "webhook", user |-> e.user, csvContent |-> FALSE,
               outcome |-> "none", event |-> e, pc |-> "received",
               status |-> 0, snap |-> NoLimits, committed |-> FALSE,
               failed |-> FALSE])
    /\ UNCHANGED <<firestore, limits, history, accounts, onceOnly, hook>>
    /\ UNCHANGED <<validateVars, auditVars, preprocessVars, splitVars>>

\* a handler that never rejects a delivery
constructEventAccepts(e) == FALSE

\* stripe.webhooks.constructEvent throws unless the signature matches
constructEventThrows(e) == ~e.signed

\* total === 9900 / 19900 / 2000
planTypeOf(total) ==
    IF total = 19900 \/ total = 2000 THEN "monthly"
    ELSE IF total = 9900 THEN "single"
    ELSE "unknown"

\* what the handler goes on to do with a verified event: the document write
\* it awaits ("premiumOn", "premiumOff", "monthly", "single"), "none" when it
\* acknowledges without writing, "throws" when reading the event raises
Pending(h, e) ==
    CASE h = "lifecycle" ->
            IF ~(firestore /\ e.user # NoUser) THEN "none"
            ELSE IF e.type \in PremiumOnTypes THEN "premiumOn"
            ELSE IF e.type \in PremiumOffTypes THEN "premiumOff"
            ELSE "none"
      [] h = "plan" ->
            IF e.type # tCheckout \/ e.user = NoUser THEN "none"
            ELSE IF planTypeOf(e.amount) = "unknown" THEN "none"
            ELSE planTypeOf(e.amount)
      [] OTHER ->
            IF e.type # tCheckout THEN "none"
            ELSE IF ~e.metadata THEN "throws"
            ELSE IF e.user # NoUser THEN "premiumOn"
            ELSE "none"

\* the handler up to its first await: 400 for a delivery that does not
\* verify, otherwise on to the write or straight to the acknowledgement; an
\* exception in the premium handler leaves the request without a response
WebhookVerify(i) ==
    /\ i \in 1..Len(requests)
    /\ requests[i].kind = "webhook" /\ requests[i].pc = "received"
    /\ LET q == requests[i]
           todo == Pending(hook, q.event)
       IN  requests' = Moved(i,
               IF constructEventThrows(q.event)
               THEN [q EXCEPT !.pc = "done", !.status = 400]
               ELSE IF todo = "throws" THEN [q EXCEPT !.pc = "hung"]
               ELSE IF todo = "none" THEN [q EXCEPT !.pc = "ack"]
               ELSE [q EXCEPT !.pc = "write"])
    /\ UNCHANGED <<firestore, limits, history, accounts, onceOnly, hook>>
    /\ UNCHANGED <<validateVars, auditVars, preprocessVars, splitVars>>

\* userLimitsDoc(uid).set({ isPremium }, { merge: true })
SetPremium(docs, u, flag) ==
    [docs EXCEPT ![u].exists = TRUE, ![u].isPremium = flag,
                 ![u].version = @ + 1]

\* userRef.set(..., { merge: true }) of the plan handler: the monthly plan
\* or one more audit credit (FieldValue.increment(1))
SetPlan(docs, u, plan) ==
    IF plan = "monthly"
    THEN [docs EXCEPT ![u].isPremium = "true", ![u].planType = "monthly",
                      ![u].auditsUsed = 0]
    ELSE [docs EXCEPT ![u].extraAuditCredits = OrDefault(@, 0) + 1]

\* the limits documents after the write todo for user u
LimitsAfter(docs, u, todo) ==
    IF hook = "plan" THEN docs
    ELSE SetPremium(docs, u, IF todo = "premiumOn" THEN "true" ELSE "false")

\* the entitlement documents after the write todo for user u
AccountsAfter(docs, u, todo) ==
    IF hook = "plan" THEN SetPlan(docs, u, todo) ELSE docs

\* the awaited set() is applied; onceOnly follows the same writes except
\* those of an event that was applied before
WebhookWrite(i) ==
    /\ i \in 1..Len(requests)
    /\ requests[i].kind = "webhook" /\ requests[i].pc = "write"
    /\ LET q == requests[i]
           e == q.event
           todo == Pending(hook, e)
       IN  /\ limits' = LimitsAfter(limits, e.user, todo)
           /\ accounts' = AccountsAfter(accounts, e.user, todo)
           /\ onceOnly' =
                 IF e.id \in onceOnly.seen THEN onceOnly
                 ELSE [limits |-> LimitsAfter(onceOnly.limits, e.user, todo),
                       accounts |->
                           AccountsAfter(onceOnly.accounts, e.user, todo),
                       seen |-> onceOnly.seen \cup {e.id}]
           /\ requests' = Moved(i, [q EXCEPT !.pc = "ack",
                                             !.committed = TRUE])
    /\ UNCHANGED <<firestore, history, hook>>
    /\ UNCHANGED <<validateVars, auditVars, preprocessVars, splitVars>>

\* the awaited set() rejects: 500 from the lifecycle handler's catch, logged
\* and acknowledged by the plan handler, unhandled in the premium handler
WebhookWriteRejected(i) ==
    /\ i \in 1..Len(requests)
    /\ requests[i].kind = "webhook" /\ requests[i].pc = "write"
    /\ LET q == [requests[i] EXCEPT !.failed = TRUE]
       IN  requests' = Moved(i,
               CASE hook = "lifecycle" ->
                        [q EXCEPT !.pc = "done", !.status = 500]
                 [] hook = "plan" -> [q EXCEPT !.pc = "ack"]
                 [] OTHER -> [q EXCEPT !.pc = "hung"])
    /\ UNCHANGED <<firestore, limits, history, accounts, onceOnly, hook>>
    /\ UNCHANGED <<validateVars, auditVars, preprocessVars, splitVars>>

\* res.json({ received: true })
WebhookAck(i) ==
    /\ i \in 1..Len(requests)
    /\ requests[i].kind = "webhook" /\ requests[i].pc = "ack"
    /\ requests' = Moved(i, [requests[i] EXCEPT !.pc = "done",
                                                !.status = 200])
    /\ UNCHANGED <<firestore, limits, history, accounts, onceOnly, hook>>
    /\ UNCHANGED <<validateVars, auditVars, preprocessVars, splitVars>>

\* part_002 and server.js initialise Firebase at start-up; part_003 runs
\* without Firestore when FIREBASE_SERVICE_ACCOUNT is missing or unparsable
InitWebhook ==
    /\ ValidateIdle /\ AuditIdle /\ PreprocessIdle /\ SplitIdle
    /\ hook \in Hooks
    /\ firestore \in BOOLEAN
    /\ hook # "lifecycle" => firestore
    /\ limits = [u \in Users |-> NoLimits]
    /\ history = [u \in Users |-> 0]
    /\ accounts = [u \in Users |-> NoAccount]
    /\ onceOnly = [limits |-> limits, accounts |-> accounts, seen |-> {}]
    /\ requests = <<>>

NextWebhook ==
    \/ WebhookArrives
    \/ \E i \in 1..MaxDeliveries : WebhookVerify(i)
    \/ \E i \in 1..MaxDeliveries : WebhookWrite(i)
    \/ \E i \in 1..MaxDeliveries : WebhookWriteRejected(i)
    \/ \E i \in 1..MaxDeliveries : WebhookAck(i)

SpecWebhook == InitWebhook /\ [][NextWebhook]_vars

\* ------------------------------------------------------------------------
\* Claims about the Stripe webhooks (SpecWebhook)
\* ------------------------------------------------------------------------
\* the entitlement fields of user u
Entitlement(lim, acc, u) ==
    [isPremium |-> IF hook = "plan" THEN acc[u].isPremium
                   ELSE lim[u].isPremium,
     planType |-> acc[u].planType,
     auditsUsed |-> acc[u].auditsUsed,
     extraAuditCredits |-> acc[u].extraAuditCredits]

\* only checkout.session.completed events were delivered more than once
OnlyCheckoutRedelivered ==
    \A i, j \in 1..Len(requests) :
        (i # j /\ requests[i].event.id = requests[j].event.id)
            => requests[i].event.type = tCheckout

\* C27: when checkout.session.completed events are delivered again, every
\* user's entitlement fields end as they end when each event is applied once
C27_RedeliveryIdempotent ==
    (Quiescent /\ OnlyCheckoutRedelivered) =>
        \A u \in Users :
            Entitlement(limits, accounts, u)
                = Entitlement(onceOnly.limits, onceOnly.accounts, u)

\* every user's entitlement fields
Entitlements == [u \in Users |-> Entitlement(limits, accounts, u)]

\* a delivery that does not verify is answered 400 and has written nothing
UnverifiedRejected ==
    \A i \in 1..Len(requests) :
        (requests[i].kind = "webhook" /\ ~requests[i].event.signed
            /\ requests[i].pc # "received")
        => /\ requests[i].pc = "done" /\ requests[i].status = 400
           /\ ~requests[i].committed

\* a step that changes an entitlement field is the write of a handler whose
\* event verified
WrittenByVerified ==
    Entitlements' # Entitlements =>
        \E i \in 1..Len(requests) :
            /\ requests[i].event.signed
            /\ requests[i].pc = "write" /\ requests'[i].pc = "ack"

\* C28: a webhook request whose signature does not verify is answered 400
\* and writes nothing, and entitlement fields change only in the handling of
\* an event whose signature verified
C28_OnlyVerifiedEventsWrite ==
    [](UnverifiedRejected) /\ [][WrittenByVerified]_vars

\* a forged delivery was turned away and a verified one has written
C28_Witness ==
    /\ \E i \in 1..Len(requests) :
          /\ ~requests[i].event.signed /\ requests[i].event.user \in Users
          /\ requests[i].pc = "done" /\ requests[i].status = 400
    /\ \E i \in 1..Len(requests) :
          requests[i].event.signed /\ requests[i].committed
    /\ \E u \in Users : Entitlement(limits, accounts, u).isPremium = "true"

\* the isPremium value an event type stands for
Polarity(type) ==
    IF type \in PremiumOnTypes THEN "true"
    ELSE IF type \in PremiumOffTypes THEN "false"
    ELSE "none"

\* request i is acknowledged with { received: true } in this step
Acknowledged(i) ==
    /\ requests[i].pc # "done"
    /\ requests'[i].pc = "done" /\ requests'[i].status = 200

\* C29: in the lifecycle webhook, when a verified event naming a user is
\* acknowledged the user's isPremium is the polarity of the event's type,
\* and handling an event of an unhandled type changes no document
C29_AcknowledgedMeansApplied ==
    [][hook = "lifecycle" =>
        \A i \in 1..Len(requests) :
            LET e == requests[i].event
            IN  (e.signed /\ e.user \in Users) =>
                  IF Polarity(e.type) = "none"
                  THEN requests'[i] # requests[i] =>
                          (limits' = limits /\ accounts' = accounts)
                  ELSE Acknowledged(i) =>
                          limits'[e.user].isPremium = Polarity(e.type)]_vars

====
